---- MODULE Spec2Model ----
(***************************************************************************)
(* Model of monodeps: the transitive impact resolver dependency::resolve   *)
(* (src/src/dependency.rs), the path model (src/src/path.rs), the          *)
(* dependency matcher DepPattern (src/src/config.rs) and the service       *)
(* discovery Service::discover (src/src/service.rs).                       *)
(*                                                                         *)
(* A string is a sequence of one-character strings, so that                *)
(* str::starts_with, Path::ancestors and the glob translation are computed *)
(* on the characters as the code computes them.                            *)
(***************************************************************************)
EXTENDS Integers, Sequences, FiniteSets, TLC

(***************************************************************************)
(* Bounds                                                                  *)
(***************************************************************************)
\* longest list of changed files read from standard input
MaxChanged == 2
\* largest number of dependency entries (declared and auto-discovered)
\* over all services of one run
MaxDeps == 2

(***************************************************************************)
(* Strings                                                                 *)
(***************************************************************************)
SEP == "/"

\* str::starts_with
StartsWith(s, prefix) ==
    /\ Len(prefix) <= Len(s)
    /\ SubSeq(s, 1, Len(prefix)) = prefix

\* str::contains for a set of characters
ContainsAny(s, chars) == \E i \in 1..Len(s) : s[i] \in chars

\* str::replace: every non-overlapping occurrence of from, left to right
RECURSIVE Replace(_, _, _)
Replace(s, from, to) ==
    IF s = <<>> THEN <<>>
    ELSE IF StartsWith(s, from)
         THEN to \o Replace(SubSeq(s, Len(from) + 1, Len(s)), from, to)
         ELSE <<s[1]>> \o Replace(Tail(s), from, to)

(***************************************************************************)
(* Path model (src/src/path.rs)                                            *)
(***************************************************************************)
\* the components of a path: the non-empty runs between separators
RECURSIVE ComponentsFrom(_, _, _, _)
ComponentsFrom(s, i, cur, acc) ==
    LET flushed == IF cur = <<>> THEN acc ELSE Append(acc, cur) IN
    IF i > Len(s) THEN flushed
    ELSE IF s[i] = SEP THEN ComponentsFrom(s, i + 1, <<>>, flushed)
    ELSE ComponentsFrom(s, i + 1, Append(cur, s[i]), acc)

Components(s) == ComponentsFrom(s, 1, <<>>, <<>>)

\* an absolute path from its components
RECURSIVE JoinComponents(_)
JoinComponents(comps) ==
    IF comps = <<>> THEN <<>>
    ELSE <<SEP>> \o Head(comps) \o JoinComponents(Tail(comps))

AbsolutePath(comps) == IF comps = <<>> THEN <<SEP>> ELSE JoinComponents(comps)

\* PathClean::clean on an absolute path: "." is dropped, ".." removes the
\* component before it and is dropped at the filesystem root
RECURSIVE CleanComponents(_, _)
CleanComponents(comps, acc) ==
    IF comps = <<>> THEN acc
    ELSE IF Head(comps) = <<".">> THEN CleanComponents(Tail(comps), acc)
    ELSE IF Head(comps) = <<".", ".">>
         THEN CleanComponents(Tail(comps),
                  IF acc = <<>> THEN acc ELSE SubSeq(acc, 1, Len(acc) - 1))
    ELSE CleanComponents(Tail(comps), Append(acc, Head(comps)))

\* Path::join: an absolute path replaces the base
PathJoin(base, path) ==
    IF path # <<>> /\ path[1] = SEP THEN path
    ELSE IF path = <<>> THEN base \o <<SEP>>
    ELSE IF base # <<>> /\ base[Len(base)] = SEP THEN base \o path
    ELSE base \o <<SEP>> \o path

\* path::canonicalize of an absolute path: lexical, the file need not exist
canonicalize(path) == AbsolutePath(CleanComponents(Components(path), <<>>))

\* PathInfo::new
PathInfo_new(path, root_dir) ==
    [display_path |-> path, canonicalized |-> canonicalize(PathJoin(root_dir, path))]

\* Path::parent of a canonical path; <<>> stands for None (the parent of "/")
Parent(canonical) ==
    LET comps == Components(canonical) IN
    IF comps = <<>> THEN <<>>
    ELSE AbsolutePath(SubSeq(comps, 1, Len(comps) - 1))

(***************************************************************************)
(* DepPattern (src/src/config.rs)                                          *)
(***************************************************************************)
NoRegex == <<>>

\* the replacements with the single star replaced before the double one
GlobRegexSource_star_first(pattern) ==
    Replace(Replace(Replace(Replace(pattern,
        <<".">>, <<"\\", ".">>),
        <<"*">>, <<"[", "^", "/", "\\", "\\", "]", "+">>),
        <<"*", "*">>, <<".", "+">>),
        <<"?">>, <<".">>)

\* the four replacements of to_glob_regex, giving the regex source text
GlobRegexSource(pattern) ==
    Replace(Replace(Replace(Replace(pattern,
        <<".">>, <<"\\", ".">>),
        <<"*", "*">>, <<".", "+">>),
        <<"*">>, <<"[", "^", "/", "\\", "\\", "]", "+">>),
        <<"?">>, <<".">>)

SegClass == <<"[", "^", "/", "\\", "\\", "]", "+">>

\* Regex::new on the text to_glob_regex produces: the tokens of the compiled
\* expression.  "lit" one given character, "any" one character (.),
\* "anyplus" one or more characters (.+), "segplus" one or more characters
\* other than / and \ ([^/\\]+)
RECURSIVE RegexCompile(_)
RegexCompile(src) ==
    IF src = <<>> THEN <<>>
    ELSE IF StartsWith(src, <<"\\", ".">>)
         THEN <<[t |-> "lit", c |-> "."]>> \o RegexCompile(SubSeq(src, 3, Len(src)))
    ELSE IF StartsWith(src, <<".", "+">>)
         THEN <<[t |-> "anyplus", c |-> ""]>> \o RegexCompile(SubSeq(src, 3, Len(src)))
    ELSE IF StartsWith(src, SegClass)
         THEN <<[t |-> "segplus", c |-> ""]>>
                  \o RegexCompile(SubSeq(src, Len(SegClass) + 1, Len(src)))
    ELSE IF src[1] = "."
         THEN <<[t |-> "any", c |-> ""]>> \o RegexCompile(Tail(src))
    ELSE <<[t |-> "lit", c |-> src[1]]>> \o RegexCompile(Tail(src))

to_glob_regex(pattern) == RegexCompile(GlobRegexSource(pattern))

\* the compiled expression re, from token i on, matches s from position j on
RECURSIVE RegexMatchAt(_, _, _, _)
RegexMatchAt(re, i, s, j) ==
    IF i > Len(re) THEN TRUE
    ELSE CASE re[i].t = "lit" ->
                  /\ j <= Len(s)
                  /\ s[j] = re[i].c
                  /\ RegexMatchAt(re, i + 1, s, j + 1)
           [] re[i].t = "any" ->
                  /\ j <= Len(s)
                  /\ RegexMatchAt(re, i + 1, s, j + 1)
           [] re[i].t = "anyplus" ->
                  \E k \in (j + 1)..(Len(s) + 1) : RegexMatchAt(re, i + 1, s, k)
           [] re[i].t = "segplus" ->
                  \E k \in (j + 1)..(Len(s) + 1) :
                      /\ \A m \in j..(k - 1) : s[m] \notin {"/", "\\"}
                      /\ RegexMatchAt(re, i + 1, s, k)

\* Regex::is_match: an unanchored search
Regex_is_match(re, s) == \E j \in 1..(Len(s) + 1) : RegexMatchAt(re, 1, s, j)

\* DepPattern::new
DepPattern_new(dependency, root_dir) ==
    [raw     |-> PathInfo_new(dependency, root_dir),
     pattern |-> IF ContainsAny(dependency, {"?", "*"})
                 THEN to_glob_regex(dependency)
                 ELSE NoRegex]

\* DepPattern::is_match
is_match(dep, path) ==
    IF dep.pattern # NoRegex
    THEN Regex_is_match(dep.pattern, path)
    ELSE StartsWith(path, dep.raw.canonicalized)

\* DepPattern::is_child_of
is_child_of(dep, canonicalized_path) ==
    IF dep.pattern # NoRegex
    THEN FALSE
    ELSE StartsWith(dep.raw.canonicalized, canonicalized_path)

\* a test that lets every pattern pass
not_within_service_always(service_dir, pattern) ==
    TRUE

\* not_within_service (src/src/service.rs)
not_within_service(service_dir, pattern) ==
    ~ is_child_of(pattern, service_dir.canonicalized)

(***************************************************************************)
(* Service and BuildTrigger (src/src/service.rs)                           *)
(***************************************************************************)
\* Option<BuildTrigger>
None == [kind |-> "None"]
FileChange == [kind |-> "FileChange"]
Dependency(source, auto) == [kind |-> "Dependency", source |-> source, auto |-> auto]
PeerDependency(source, auto) ==
    [kind |-> "PeerDependency", source |-> source, auto |-> auto]
GlobalDependency == [kind |-> "GlobalDependency"]

\* Service::has_trigger
has_trigger(service) == service.trigger # None

\* Service::trigger: Option::replace, whatever the old value was
Service_trigger(service, trigger) == [service EXCEPT !.trigger = trigger]

(***************************************************************************)
(* The inputs of one run                                                   *)
(***************************************************************************)
\* opts.target.canonicalized, the repository root
Root == <<"/", "r">>

\* the directories that may hold a marker file, relative to the root:
\* a, ab (a sibling whose name extends a) and a/b (nested in a)
ServiceDirs == { <<"a">>, <<"a", "b">>, <<"a", "/", "b">> }

\* the lines standard input may hold: a/x, a/b/x (below a and, where it is a
\* service, below a/b), c/x (below the root, in no service) and ../x
\* (outside the root)
ChangedUniverse ==
    { <<"a", "/", "x">>, <<"a", "/", "b", "/", "x">>,
      <<"c", "/", "x">>, <<".", ".", "/", "x">> }

\* the dependency strings of markers and analyzers: a, ab, c and the glob a?
DepUniverse == { <<"a">>, <<"a", "b">>, <<"c">>, <<"a", "?">> }

\* the values of config.global_dependencies: none, c, */x
GlobalUniverse == { <<>>, << <<"c">> >>, << <<"*", "/", "x">> >> }

\* the subsets of U with at most k elements
RECURSIVE BoundedSubsets(_, _)
BoundedSubsets(U, k) ==
    IF k = 0 THEN {{}}
    ELSE LET smaller == BoundedSubsets(U, k - 1) IN
         smaller \cup { b \cup {u} : b \in smaller, u \in U }

\* the sequences over U of length at most n that name no element twice
BoundedSeqs(U, n) ==
    { seq \in UNION { [1..k -> U] : k \in 0..n } :
        \A i, j \in DOMAIN seq : i # j => seq[i] # seq[j] }

\* the orders in which a HashMap may yield the elements of S
Orderings(S) ==
    { seq \in [1..Cardinality(S) -> S] :
        \A i, j \in 1..Cardinality(S) : i # j => seq[i] # seq[j] }

\* one dependency entry: service directory, dependency string, and whether
\* an analyzer (auto) or the marker file declared it
DepEntries(dirs) == [svc : dirs, dep : DepUniverse, auto : BOOLEAN]

\* ServiceContext::from_depsfile: the service location is the parent of the
\* marker file, a path the directory walk yields below the root
service_location(dir) == PathInfo_new(PathJoin(Root, dir), Root)

\* Service::discover_service keeps an auto-discovered pattern only when it
\* is not within the service directory
DiscoverableEntry(e) ==
    e.auto => not_within_service(service_location(e.svc), DepPattern_new(e.dep, Root))

\* the Service that discovery builds for directory dir from the entries; the
\* two pattern lists are kept as sets because resolve only asks whether any
\* of their patterns matches
MkService(dir, entries) ==
    [path |-> service_location(dir),
     dependencies |->
        { DepPattern_new(e.dep, Root) : e \in { x \in entries : x.svc = dir /\ ~ x.auto } },
     auto_dependencies |->
        { DepPattern_new(e.dep, Root) : e \in { x \in entries : x.svc = dir /\ x.auto } },
     trigger |-> None]

\* HashMap<String, Service> keyed by the canonical path
MkServiceMap(dirs, entries) ==
    [p \in { service_location(d).canonicalized : d \in dirs } |->
        MkService(CHOOSE d \in dirs : service_location(d).canonicalized = p, entries)]

(***************************************************************************)
(* dependency::resolve (src/src/dependency.rs)                             *)
(***************************************************************************)
VARIABLES
    service_map,          \* canonical path -> Service
    changed_files,        \* Vec<String>, the input
    global_dependencies,  \* opts.config.global_dependencies
    canon_changed_files,  \* Vec<PathInfo>
    updated,              \* Vec<PathInfo>, the services triggered last
    idx,                  \* position of the loop over canon_changed_files
    passes,               \* number of peer-propagation passes run
    pc,                   \* position in main::dependencies and resolve
    result,               \* what resolve returned
    tree,                 \* the files below the target directory
    supported_roots,      \* opts.supported_roots
    walk,                 \* directories the walk of discover has yet to yield
    contexts,             \* HashMap<String, ServiceContext> of discover
    discovered            \* what Service::discover has collected or returned

\* the state of Service::discover
dvars == <<tree, supported_roots, walk, contexts, discovered>>

vars == <<service_map, changed_files, global_dependencies, canon_changed_files,
          updated, idx, passes, pc, result, dvars>>

Running == [status |-> "running", services |-> {}]
Ok(services) == [status |-> "ok", services |-> services]
Err == [status |-> "err", services |-> {}]

\* Path::to_str: None only when the path is not valid Unicode
to_str_fails(path) == \E i \in 1..Len(path) : path[i] \notin STRING

NoMatch == [found |-> FALSE]

\* resolve called on a list of services that is given, as its tests do
NoDiscovery ==
    /\ tree = [files |-> {}]
    /\ supported_roots = {}
    /\ walk = {}
    /\ contexts = <<>>
    /\ discovered = Running

\* service_has_dependency that tests the auto-discovered patterns first
RECURSIVE service_has_dependency_auto_first(_, _, _)
service_has_dependency_auto_first(service, files, i) ==
    IF i > Len(files) THEN NoMatch
    ELSE IF \E dep \in service.auto_dependencies : is_match(dep, files[i].canonicalized)
         THEN [found |-> TRUE, file |-> files[i], auto |-> TRUE]
    ELSE IF \E dep \in service.dependencies : is_match(dep, files[i].canonicalized)
         THEN [found |-> TRUE, file |-> files[i], auto |-> FALSE]
    ELSE service_has_dependency_auto_first(service, files, i + 1)

RECURSIVE service_has_dependency_from(_, _, _)
\* service_has_dependency: the first changed file that matches a declared
\* pattern (auto = false) or else an auto-discovered one (auto = true)
service_has_dependency_from(service, files, i) ==
    IF i > Len(files) THEN NoMatch
    ELSE IF \E dep \in service.dependencies : is_match(dep, files[i].canonicalized)
         THEN [found |-> TRUE, file |-> files[i], auto |-> FALSE]
    ELSE IF \E dep \in service.auto_dependencies : is_match(dep, files[i].canonicalized)
         THEN [found |-> TRUE, file |-> files[i], auto |-> TRUE]
    ELSE service_has_dependency_from(service, files, i + 1)

\* service_has_dependency that looks at the first changed file only
service_has_dependency_first_file(service, files) ==
    IF files = <<>> THEN NoMatch
    ELSE service_has_dependency_from(service, <<files[1]>>, 1)

service_has_dependency(service, files) == service_has_dependency_from(service, files, 1)

\* check_direct_dependencies without the has_trigger check of lines 98-100
direct_candidates_retrigger(services, files) ==
    { p \in DOMAIN services : service_has_dependency(services[p], files).found }

\* check_direct_dependencies: the services the pass triggers
direct_candidates(services, files) ==
    { p \in DOMAIN services :
        /\ ~ has_trigger(services[p])
        /\ service_has_dependency(services[p], files).found }

\* check_direct_dependencies that records PeerDependency whatever is asked
check_direct_dependencies_peer(services, files, trigger) ==
    [p \in DOMAIN services |->
        IF p \in direct_candidates(services, files)
        THEN LET hit == service_has_dependency(services[p], files) IN
             Service_trigger(services[p], PeerDependency(hit.file.display_path, hit.auto))
        ELSE services[p]]

\* check_direct_dependencies: the map after the pass; trigger names the
\* constructor the caller passes, BuildTrigger::Dependency or ::PeerDependency.
\* The source it records is the path as given (dependency.rs reads the field
\* as path, path.rs names it display_path)
check_direct_dependencies(services, files, trigger) ==
    [p \in DOMAIN services |->
        IF p \in direct_candidates(services, files)
        THEN LET hit == service_has_dependency(services[p], files) IN
             Service_trigger(services[p],
                 IF trigger = "Dependency"
                 THEN Dependency(hit.file.display_path, hit.auto)
                 ELSE PeerDependency(hit.file.display_path, hit.auto))
        ELSE services[p]]

NoService == [found |-> FALSE, err |-> FALSE]

\* check_file_dependency that looks at the parent directory only
check_file_dependency_parent_only(services, path) ==
    LET parent == Parent(path) IN
    IF parent # <<>> /\ parent \in DOMAIN services
    THEN [found |-> TRUE, err |-> FALSE, key |-> parent]
    ELSE NoService

\* check_file_dependency that fails when the walk finds no service
RECURSIVE check_file_dependency_strict(_, _)
check_file_dependency_strict(services, path) ==
    LET parent == Parent(path) IN
    IF parent = <<>> THEN [found |-> FALSE, err |-> TRUE]
    ELSE IF parent \in DOMAIN services
         THEN [found |-> TRUE, err |-> FALSE, key |-> parent]
    ELSE IF parent = Root THEN [found |-> FALSE, err |-> TRUE]
    ELSE check_file_dependency_strict(services, parent)

RECURSIVE check_file_dependency_from(_, _)
\* check_file_dependency: walk Path::ancestors().skip(1) of the file
check_file_dependency_from(services, path) ==
    LET parent == Parent(path) IN
    IF parent = <<>> THEN NoService
    ELSE IF to_str_fails(parent) THEN [found |-> FALSE, err |-> TRUE]
    ELSE IF parent \in DOMAIN services
         THEN [found |-> TRUE, err |-> FALSE, key |-> parent]
    ELSE IF parent = Root THEN NoService
    ELSE check_file_dependency_from(services, parent)

\* check_file_dependency that takes the outermost ancestor service
check_file_dependency_outermost(services, pattern) ==
    LET ancestors == { p \in DOMAIN services :
                          StartsWith(pattern.canonicalized, p \o <<SEP>>) } IN
    IF ancestors = {} THEN NoService
    ELSE [found |-> TRUE, err |-> FALSE,
          key |-> CHOOSE p \in ancestors : \A q \in ancestors : Len(p) <= Len(q)]
check_file_dependency(services, pattern) ==
    check_file_dependency_from(services, pattern.canonicalized)

\* lines 27-36 with Iterator::all in the place of Iterator::any
global_match_all(globals, files) ==
    \E g \in globals : \A i \in 1..Len(files) : is_match(g, files[i].canonicalized)

\* lines 27-36: some compiled global pattern matches some changed file
global_match(globals, files) ==
    \E g \in globals : \E i \in 1..Len(files) : is_match(g, files[i].canonicalized)

\* lines 81-84 without the filter
triggered_services_unfiltered(services) ==
    { services[p] : p \in DOMAIN services }

\* lines 81-84: the services that have a trigger
triggered_services(services) ==
    { services[p] : p \in { q \in DOMAIN services : has_trigger(services[q]) } }

Init ==
    /\ \E dirs \in SUBSET ServiceDirs :
       \E entries \in BoundedSubsets({ e \in DepEntries(dirs) : DiscoverableEntry(e) }, MaxDeps) :
           service_map = MkServiceMap(dirs, entries)
    /\ changed_files \in BoundedSeqs(ChangedUniverse, MaxChanged)
    /\ global_dependencies \in GlobalUniverse
    /\ canon_changed_files = <<>>
    /\ updated = <<>>
    /\ idx = 1
    /\ passes = 0
    /\ pc = "global"
    /\ result = Running
    /\ NoDiscovery

\* lines 14-47: canonicalize the changed files, then the global dependencies
CheckGlobal ==
    /\ pc = "global"
    /\ LET canon == [i \in 1..Len(changed_files) |-> PathInfo_new(changed_files[i], Root)]
           globals == { DepPattern_new(global_dependencies[i], Root) :
                            i \in 1..Len(global_dependencies) }
       IN /\ canon_changed_files' = canon
          /\ IF global_match(globals, canon)
             THEN /\ service_map' = [p \in DOMAIN service_map |->
                                        Service_trigger(service_map[p], GlobalDependency)]
                  /\ result' = Ok({ Service_trigger(service_map[p], GlobalDependency) :
                                        p \in DOMAIN service_map })
                  /\ pc' = "done"
             ELSE /\ pc' = IF Len(canon) = 0 THEN "direct" ELSE "files"
                  /\ UNCHANGED <<service_map, result>>
    /\ UNCHANGED <<changed_files, global_dependencies, updated, idx, passes, dvars>>

\* lines 52-61: one iteration of the loop over the changed files
CheckFileDependency ==
    /\ pc = "files"
    /\ idx <= Len(canon_changed_files)
    /\ LET found == check_file_dependency(service_map, canon_changed_files[idx]) IN
       IF found.err
       THEN /\ result' = Err
            /\ pc' = "done"
            /\ UNCHANGED <<service_map, updated, idx>>
       ELSE /\ IF found.found
               THEN /\ service_map' = [service_map EXCEPT
                           ![found.key] = Service_trigger(@, FileChange)]
                    /\ updated' = Append(updated, service_map[found.key].path)
               ELSE UNCHANGED <<service_map, updated>>
            /\ idx' = idx + 1
            /\ pc' = IF idx = Len(canon_changed_files) THEN "direct" ELSE "files"
            /\ UNCHANGED result
    /\ UNCHANGED <<changed_files, global_dependencies, canon_changed_files, passes, dvars>>

\* lines 63-68: the services with a direct dependency on a changed file
DirectDependencies ==
    /\ pc = "direct"
    /\ \E order \in Orderings(direct_candidates(service_map, canon_changed_files)) :
          updated' = updated \o [i \in DOMAIN order |-> service_map[order[i]].path]
    /\ service_map' = check_direct_dependencies(service_map, canon_changed_files, "Dependency")
    /\ pc' = "peer"
    /\ UNCHANGED <<changed_files, global_dependencies, canon_changed_files, idx,
                   passes, result, dvars>>

\* the peer loop handed the changed files in the place of updated
PeerDependencies_changed_files ==
    /\ pc = "peer"
    /\ \E order \in Orderings(direct_candidates(service_map, canon_changed_files)) :
          updated' = [i \in DOMAIN order |-> service_map[order[i]].path]
    /\ service_map' =
          check_direct_dependencies(service_map, canon_changed_files, "PeerDependency")
    /\ passes' = passes + 1
    /\ IF direct_candidates(service_map, canon_changed_files) = {}
       THEN /\ pc' = "done"
            /\ result' = Ok(triggered_services(service_map))
       ELSE UNCHANGED <<pc, result>>
    /\ UNCHANGED <<changed_files, global_dependencies, canon_changed_files, idx, dvars>>

\* lines 70-85: one pass of the peer loop; the pass that finds nothing
\* leaves the loop and returns the services that have a trigger
PeerDependencies ==
    /\ pc = "peer"
    /\ \E order \in Orderings(direct_candidates(service_map, updated)) :
          updated' = [i \in DOMAIN order |-> service_map[order[i]].path]
    /\ service_map' = check_direct_dependencies(service_map, updated, "PeerDependency")
    /\ passes' = passes + 1
    /\ IF direct_candidates(service_map, updated) = {}
       THEN /\ pc' = "done"
            /\ result' = Ok(triggered_services(service_map))
       ELSE UNCHANGED <<pc, result>>
    /\ UNCHANGED <<changed_files, global_dependencies, canon_changed_files, idx, dvars>>

Next ==
    \/ CheckGlobal
    \/ CheckFileDependency
    \/ DirectDependencies
    \/ PeerDependencies

Spec == Init /\ [][Next]_vars

\* the runs on all service directories with declared dependencies only, one
\* changed file and no global dependency
FairInit ==
    /\ \E entries \in BoundedSubsets({ e \in DepEntries(ServiceDirs) : ~ e.auto }, MaxDeps) :
           service_map = MkServiceMap(ServiceDirs, entries)
    /\ changed_files \in [1..1 -> ChangedUniverse]
    /\ global_dependencies = <<>>
    /\ canon_changed_files = <<>>
    /\ updated = <<>>
    /\ idx = 1
    /\ passes = 0
    /\ pc = "global"
    /\ result = Running
    /\ NoDiscovery

\* resolve runs to its end once called: it is one synchronous call and
\* nothing else is scheduled
FairSpec == FairInit /\ [][Next]_vars /\ WF_vars(Next)

TypeOK ==
    /\ pc \in {"walk", "services", "global", "files", "direct", "peer", "done"}
    /\ result.status \in {"running", "ok", "err"}
    /\ idx \in 1..(MaxChanged + 1)

(***************************************************************************)
(* The files below the target directory                                    *)
(***************************************************************************)
\* An entry of the tree is the list of its path components below the root,
\* each component a string; <<>> is the target directory itself.  tree.files
\* holds the regular files, the directories are the prefixes of the files.
NameDepsfile == <<"D", "e", "p", "s", "f", "i", "l", "e">>
NameBuildfile == <<"B", "u", "i", "l", "d", "f", "i", "l", "e", ".", "y", "a", "m", "l">>
NameJustfile == <<"j", "u", "s", "t", "f", "i", "l", "e">>
NameMakefile == <<"M", "a", "k", "e", "f", "i", "l", "e">>
NameNodeModules == <<"n", "o", "d", "e", "_", "m", "o", "d", "u", "l", "e", "s">>

\* DirEntry::path of an entry: the walk starts at the canonical target
EntryPath(entry) == AbsolutePath(Components(Root) \o entry)

\* DirEntry::file_name, Path::file_name
file_name(entry) ==
    LET comps == Components(Root) \o entry IN comps[Len(comps)]

\* Path::is_file, Path::is_dir
is_file(t, entry) == entry \in t.files
is_dir(t, entry) == \E f \in t.files : Len(entry) < Len(f) /\ SubSeq(f, 1, Len(entry)) = entry

\* the closure given to filter_entry by non_hidden_files
hidden(name) == StartsWith(name, <<".">>) \/ name = NameNodeModules

\* non_hidden_files(dir): WalkDir yields dir itself and what lies below it;
\* filter_entry drops an entry that fails the closure and does not descend
\* into it, the start directory included
non_hidden_files(t, dir) ==
    LET all == UNION { { SubSeq(f, 1, k) : k \in 0..Len(f) } : f \in t.files }
        start == Len(Components(Root)) + Len(dir)
    IN { e \in all :
           /\ Len(dir) <= Len(e)
           /\ SubSeq(e, 1, Len(dir)) = dir
           /\ LET comps == Components(Root) \o e IN
              \A i \in start..Len(comps) : ~ hidden(comps[i]) }

\* the entry a path names, resolved lexically; NoEntry for a path outside
\* the target directory
NoEntry == <<"{none}">>
EntryOf(path) ==
    LET comps == Components(canonicalize(path))
        root == Components(Root)
    IN IF Len(comps) >= Len(root) /\ SubSeq(comps, 1, Len(root)) = root
       THEN SubSeq(comps, Len(root) + 1, Len(comps))
       ELSE NoEntry

\* Path::exists, and Path::metadata of a path given as a string
path_is_file(t, path) == is_file(t, EntryOf(path))
path_is_dir(t, path) == EntryOf(path) = <<>> \/ is_dir(t, EntryOf(path))

(***************************************************************************)
(* KustomizeAnalyzer (src/src/service/kustomize.rs)                        *)
(***************************************************************************)
NameKustomizationYaml ==
    <<"k", "u", "s", "t", "o", "m", "i", "z", "a", "t", "i", "o", "n", ".", "y", "a", "m", "l">>
NameKustomizationYml ==
    <<"k", "u", "s", "t", "o", "m", "i", "z", "a", "t", "i", "o", "n", ".", "y", "m", "l">>

\* u8::to_ascii_lowercase on the upper-case letters file names here use
to_ascii_lowercase(c) ==
    CASE c = "B" -> "b" [] c = "D" -> "d" [] c = "K" -> "k" [] c = "M" -> "m"
      [] OTHER -> c

\* OsStr::eq_ignore_ascii_case
eq_ignore_ascii_case(a, b) ==
    /\ Len(a) = Len(b)
    /\ \A i \in 1..Len(a) : to_ascii_lowercase(a[i]) = to_ascii_lowercase(b[i])

\* the lists a kustomization holds, in the order parse_kustomization chains
\* them: resources, bases, components, patches[].path,
\* configMapGenerator[].files[]
all_references(yaml) ==
    yaml.resources \o yaml.bases \o yaml.components \o yaml.patches
        \o yaml.configMapGenerator

KustomizeOk(deps, visited) == [err |-> "none", deps |-> deps, visited |-> visited]
KustomizeErr(kind, visited) == [err |-> kind, deps |-> <<>>, visited |-> visited]

\* a lookup that knows kustomization.yaml only
parse_kustomization_dir_yaml_only(t, dir) ==
    IF path_is_file(t, PathJoin(dir, NameKustomizationYaml))
    THEN PathJoin(dir, NameKustomizationYaml)
    ELSE <<>>

\* parse_kustomization_dir: the kustomization file of directory dir that is
\* parsed, kustomization.yaml before kustomization.yml; <<>> if it has none
parse_kustomization_dir(t, dir) ==
    LET yaml_candidate == PathJoin(dir, NameKustomizationYaml)
        yml_candidate == PathJoin(dir, NameKustomizationYml)
    IN IF path_is_file(t, yaml_candidate) THEN yaml_candidate
       ELSE IF path_is_file(t, yml_candidate) THEN yml_candidate
       ELSE <<>>

\* lines 78-87 of parse_kustomization: the file was visited before (a
\* cycle), or it cannot be loaded, or it is parsed
kustomization_status(t, path, visited) ==
    IF canonicalize(path) \in visited THEN "cyclic dependency"
    ELSE IF EntryOf(path) \in t.unreadable THEN "load"
    ELSE "none"

\* lines 73-112: the directory of the kustomization at path and the
\* references it lists, the state of one activation of parse_kustomization
kustomization_frame(t, path) ==
    [kustomization_dir |-> Parent(path),
     references        |-> all_references(t.kustomizations[EntryOf(path)])]

\* the state of the loop over the references (lines 116-134) and of the
\* calls it makes for a referenced directory: frames is the stack of the
\* activations of parse_kustomization, the innermost last, each with the
\* references it has still to look at; visited is the HashSet handed down
\* by reference, dependencies what is collected so far in the order of the
\* calls, err the error that ended it
KustomizeState(err, frames, visited, dependencies) ==
    [err |-> err, frames |-> frames, visited |-> visited, dependencies |-> dependencies]

\* a referenced directory that is passed over when its kustomization was
\* visited before
enter_directory_once(t, file, next, visited, dependencies) ==
    IF file = <<>> \/ canonicalize(file) \in visited
    THEN KustomizeState("none", next, visited, dependencies)
    ELSE IF kustomization_status(t, file, visited) # "none"
         THEN KustomizeState(kustomization_status(t, file, visited), next, visited,
                  dependencies)
    ELSE KustomizeState("none", Append(next, kustomization_frame(t, file)),
             visited \cup {canonicalize(file)}, dependencies)

\* a referenced directory (lines 129-131): without a kustomization file it
\* is passed over, else parse_kustomization is entered for file unless it
\* was visited or cannot be loaded
enter_directory(t, file, next, visited, dependencies) ==
    IF file = <<>> THEN KustomizeState("none", next, visited, dependencies)
    ELSE IF kustomization_status(t, file, visited) # "none"
         THEN KustomizeState(kustomization_status(t, file, visited), next, visited,
                  dependencies)
    ELSE KustomizeState("none", Append(next, kustomization_frame(t, file)),
             visited \cup {canonicalize(file)}, dependencies)

\* the reference at path (lines 119-133), next being the stack once the
\* reference is taken off: a file is pushed as a dependency, a directory is
\* entered, anything else is passed over
resolve_reference(t, path, next, base_dir, visited, dependencies) ==
    IF path_is_file(t, path)
    THEN KustomizeState("none", next, visited,
             Append(dependencies, DepPattern_new(path, base_dir)))
    ELSE IF path_is_dir(t, path)
         THEN enter_directory(t, parse_kustomization_dir(t, path), next, visited,
                  dependencies)
    ELSE KustomizeState("none", next, visited, dependencies)

\* one step of the innermost activation: it returns to the one that called
\* it when it has no reference left, else it takes its next reference
next_reference(t, frames, base_dir, visited, dependencies) ==
    IF frames[Len(frames)].references = <<>>
    THEN KustomizeState("none", SubSeq(frames, 1, Len(frames) - 1), visited, dependencies)
    ELSE resolve_reference(t,
             PathJoin(frames[Len(frames)].kustomization_dir,
                      Head(frames[Len(frames)].references)),
             [frames EXCEPT ![Len(frames)].references = Tail(@)],
             base_dir, visited, dependencies)

\* the loop over the references with the calls it makes, until the
\* outermost activation returns or one of them fails
RECURSIVE parse_references(_, _, _)
parse_references(t, base_dir, state) ==
    IF state.err # "none" THEN KustomizeErr(state.err, state.visited)
    ELSE IF state.frames = <<>> THEN KustomizeOk(state.dependencies, state.visited)
    ELSE parse_references(t, base_dir,
             next_reference(t, state.frames, base_dir, state.visited, state.dependencies))

\* parse_kustomization for the file at path
parse_kustomization(t, path, base_dir, visited) ==
    IF kustomization_status(t, path, visited) # "none"
    THEN KustomizeErr(kustomization_status(t, path, visited), visited)
    ELSE parse_references(t, base_dir,
             KustomizeState("none", <<kustomization_frame(t, path)>>,
                 visited \cup {canonicalize(path)}, <<>>))

\* the kustomization files KustomizeAnalyzer::dependencies finds below dir
kustomization_entries(t, dir) ==
    { e \in non_hidden_files(t, dir) :
        \/ eq_ignore_ascii_case(file_name(e), NameKustomizationYaml)
        \/ eq_ignore_ascii_case(file_name(e), NameKustomizationYml) }

\* line 36 and the `?` of line 34: the imports of one kustomization file are
\* added to those collected, or its error is the result
extend_imports(collected_imports, deps) ==
    IF deps.err # "none" THEN KustomizeErr(deps.err, {})
    ELSE KustomizeOk(collected_imports.deps \o deps.deps, {})

\* KustomizeAnalyzer::dependencies: every kustomization file below dir, in
\* the order the walk yields them, each with a fresh visited set; the first
\* error ends the analysis.  collected_imports is the result so far
RECURSIVE KustomizeAnalyzer_dependencies(_, _, _, _)
KustomizeAnalyzer_dependencies(t, dir, entries, collected_imports) ==
    IF entries = <<>> \/ collected_imports.err # "none" THEN collected_imports
    ELSE KustomizeAnalyzer_dependencies(t, dir, Tail(entries),
             extend_imports(collected_imports,
                 parse_kustomization(t, EntryPath(Head(entries)), dir, {})))

(***************************************************************************)
(* Text of files: what the scanners of src/src/service read                *)
(***************************************************************************)
\* SCAN_MAX_LINES of service.rs, the line cap of ReferenceFinder
SCAN_MAX_LINES == 300
\* SCAN_MAX_LINES of service/proto.rs, the line cap of extract_proto_imports
proto_SCAN_MAX_LINES == 200

KwImport == <<"i", "m", "p", "o", "r", "t">>
KwMod == <<"m", "o", "d">>
KwInclude == <<"i", "n", "c", "l", "u", "d", "e">>

\* str::ends_with
EndsWith(name, suffix) ==
    /\ Len(name) >= Len(suffix)
    /\ SubSeq(name, Len(name) - Len(suffix) + 1, Len(name)) = suffix

\* str::contains
Contains(s, sub) ==
    \E i \in 1..(Len(s) + 1) :
        /\ i + Len(sub) - 1 <= Len(s)
        /\ SubSeq(s, i, i + Len(sub) - 1) = sub

\* str::to_lowercase on the names these repositories use
to_lowercase(name) == [i \in DOMAIN name |-> to_ascii_lowercase(name[i])]

\* line.splitn(3, quote) when it has three parts: the part between the
\* first and the second quote, as a list of one text; the empty list when
\* the line has fewer than two quotes
splitn3_middle(line, quote) ==
    LET at == { i \in 1..Len(line) : line[i] = quote } IN
    IF Cardinality(at) < 2 THEN <<>>
    ELSE LET first == CHOOSE i \in at : \A j \in at : i <= j
             second == CHOOSE i \in at \ {first} : \A j \in at \ {first} : i <= j
         IN << SubSeq(line, first + 1, second - 1) >>

\* str::split(sep): the parts between the separators, empty parts included
RECURSIVE SplitFrom(_, _, _, _)
SplitFrom(s, sep, cur, acc) ==
    IF s = <<>> THEN Append(acc, cur)
    ELSE IF Head(s) = sep THEN SplitFrom(Tail(s), sep, <<>>, Append(acc, cur))
    ELSE SplitFrom(Tail(s), sep, Append(cur, Head(s)), acc)

Split(s, sep) == SplitFrom(s, sep, <<>>, <<>>)

\* the concatenation of a list of lists
RECURSIVE Flatten(_)
Flatten(lists) == IF lists = <<>> THEN <<>> ELSE Head(lists) \o Flatten(Tail(lists))

\* read_lines with map_while(Result::ok): File::open fails for a path that
\* names nothing and for a file that cannot be read; a directory opens and
\* yields no line.  tree.lines holds the lines of each regular file
read_lines(t, path) ==
    IF path_is_file(t, path)
    THEN IF EntryOf(path) \in t.unreadable THEN [ok |-> FALSE, lines |-> <<>>]
         ELSE [ok |-> TRUE, lines |-> t.lines[EntryOf(path)]]
    ELSE [ok |-> path_is_dir(t, path), lines |-> <<>>]

\* DepPattern::plain: a literal pattern, never a glob
DepPattern_plain(dependency, root_dir) ==
    [raw |-> PathInfo_new(dependency, root_dir), pattern |-> NoRegex]

\* AsRef<Path> for DepPattern: the canonical path
DepPattern_as_ref(dep) == dep.raw.canonicalized

(***************************************************************************)
(* JustfileAnalyzer (src/src/service/justfile.rs), MakefileAnalyzer        *)
(* (src/src/service/makefile.rs) and ReferenceFinder (src/src/service.rs)  *)
(***************************************************************************)
\* An Option<DepPattern> is the list of no or of one pattern.

\* extract_from_import of justfile.rs
justfile_extract_from_import(line, dir) ==
    [i \in DOMAIN splitn3_middle(line, "'") |->
        DepPattern_plain(splitn3_middle(line, "'")[i], dir)]

\* the four files `mod name` may stand for, in the order they are tried
submodule_candidates(module_name) ==
    << <<".", "/">> \o module_name \o <<".", "j", "u", "s", "t">>,
       <<".", "/">> \o module_name \o <<"/", "m", "o", "d", ".", "j", "u", "s", "t">>,
       <<".", "/">> \o module_name \o <<"/">> \o <<"j", "u", "s", "t", "f", "i", "l", "e">>,
       <<".", "/">> \o module_name \o <<"/", ".">> \o <<"j", "u", "s", "t", "f", "i", "l", "e">> >>

\* lines 63-88 of extract_from_submodule: the first candidate that is a file
submodule_shorthand(t, words, dir) ==
    IF Len(words) # 2 THEN <<>>
    ELSE LET existing == SelectSeq(submodule_candidates(words[2]),
                             LAMBDA justfile : path_is_file(t, PathJoin(dir, justfile)))
         IN IF existing = <<>> THEN <<>>
            ELSE << DepPattern_plain(PathJoin(dir, existing[1]), dir) >>

\* extract_from_submodule: `mod name 'path'`, or else the shorthand
extract_from_submodule(t, line, dir) ==
    IF splitn3_middle(line, "'") # <<>>
    THEN justfile_extract_from_import(line, dir)
    ELSE submodule_shorthand(t, Split(line, " "), dir)

\* extract_from_line of justfile.rs
justfile_extract_from_line(t, line, dir) ==
    IF StartsWith(line, KwImport) THEN justfile_extract_from_import(line, dir)
    ELSE IF StartsWith(line, KwMod) THEN extract_from_submodule(t, line, dir)
    ELSE <<>>

\* Regex::is_match of variable_rgx, \$\([^)]+\): the token holds `$(`, then
\* one character or more other than `)`, then `)`
variable_rgx_is_match(token) ==
    \E i \in 1..Len(token) : \E j \in (i + 3)..Len(token) :
        /\ token[i] = "$"
        /\ token[i + 1] = "("
        /\ token[j] = ")"
        /\ \A k \in (i + 2)..(j - 1) : token[k] # ")"

\* MakefileAnalyzer::extract_from_line: the words after the first one of an
\* include line, those with a variable reference left out
makefile_extract_from_line(line, dir) ==
    IF ~ StartsWith(line, KwInclude) THEN <<>>
    ELSE LET include_paths == Tail(Split(line, " "))
             plain == SelectSeq(include_paths,
                          LAMBDA include_path : ~ variable_rgx_is_match(include_path))
         IN [i \in DOMAIN plain |-> DepPattern_plain(plain[i], dir)]

\* the closure handed to ReferenceFinder::extract_from by the analyzer named
extractor(t, analyzer, line, parent) ==
    IF analyzer = "Makefile" THEN makefile_extract_from_line(line, parent)
    ELSE justfile_extract_from_line(t, line, parent)

\* lines 515-523 of extract_from for the file at path: the references the
\* extractor finds in the lines the loop reads, which are the first
\* SCAN_MAX_LINES ones, in the order of the lines
scanned_references(t, analyzer, path) ==
    LET lines == read_lines(t, path).lines
        scanned == SubSeq(lines, 1, IF Len(lines) > SCAN_MAX_LINES
                                    THEN SCAN_MAX_LINES ELSE Len(lines))
        hits == SelectSeq(scanned,
                    LAMBDA line : extractor(t, analyzer, line, Parent(path)) # <<>>)
    IN Flatten([i \in DOMAIN hits |-> extractor(t, analyzer, hits[i], Parent(path))])

\* The state of one traversal.  frames is the stack of the activations of
\* extract_from, the innermost last, each with the references of its file
\* it has still to follow and the reference that led to the file (import,
\* none for the file the traversal starts at); found is the HashSet of the
\* finder, imports what the traversal has collected in the order of the
\* pushes, read the files whose lines were read, err the error that ended it
FinderState(err, frames, found, imports, read) ==
    [err |-> err, frames |-> frames, found |-> found, imports |-> imports, read |-> read]

\* a finder that reads a file again when it meets it again, without
\* following its references a second time
finder_enter_rescan(t, analyzer, path, import, st) ==
    IF path \in st.found /\ ~ path_is_file(t, path)
    THEN FinderState("none", st.frames, st.found, st.imports \o import, st.read)
    ELSE IF path \in st.found
         THEN FinderState("none", st.frames, st.found,
                  st.imports \o scanned_references(t, analyzer, path) \o import,
                  Append(st.read, path))
    ELSE IF Parent(path) = <<>>
         THEN FinderState("parent", st.frames, st.found \cup {path}, st.imports, st.read)
    ELSE IF ~ path_is_file(t, path)
         THEN FinderState("none", st.frames, st.found \cup {path}, st.imports \o import,
                  st.read)
    ELSE IF ~ read_lines(t, path).ok
         THEN FinderState("read", st.frames, st.found \cup {path}, st.imports, st.read)
    ELSE FinderState("none",
             Append(st.frames, [references |-> scanned_references(t, analyzer, path),
                                import     |-> import]),
             st.found \cup {path}, st.imports, Append(st.read, path))

\* extract_from is called for path (lines 487-515), import being the
\* reference pushed once the call has returned (line 525): a path met
\* before and a path that is no file return no references, a file that
\* cannot be opened is an error, any other file is read
finder_enter(t, analyzer, path, import, st) ==
    IF path \in st.found
    THEN FinderState("none", st.frames, st.found, st.imports \o import, st.read)
    ELSE IF Parent(path) = <<>>
         THEN FinderState("parent", st.frames, st.found \cup {path}, st.imports, st.read)
    ELSE IF ~ path_is_file(t, path)
         THEN FinderState("none", st.frames, st.found \cup {path}, st.imports \o import,
                  st.read)
    ELSE IF ~ read_lines(t, path).ok
         THEN FinderState("read", st.frames, st.found \cup {path}, st.imports, st.read)
    ELSE FinderState("none",
             Append(st.frames, [references |-> scanned_references(t, analyzer, path),
                                import     |-> import]),
             st.found \cup {path}, st.imports, Append(st.read, path))

\* one step of the innermost activation: with no reference left it returns
\* and the reference that led to it is pushed, else it follows its next
\* reference (line 524)
finder_next(t, analyzer, st) ==
    IF st.frames[Len(st.frames)].references = <<>>
    THEN FinderState("none", SubSeq(st.frames, 1, Len(st.frames) - 1), st.found,
             st.imports \o st.frames[Len(st.frames)].import, st.read)
    ELSE finder_enter(t, analyzer,
             DepPattern_as_ref(Head(st.frames[Len(st.frames)].references)),
             << Head(st.frames[Len(st.frames)].references) >>,
             [st EXCEPT !.frames[Len(st.frames)].references = Tail(@)])

\* the traversal, until the outermost activation returns or one fails
RECURSIVE finder_run(_, _, _)
finder_run(t, analyzer, st) ==
    IF st.err # "none" \/ st.frames = <<>> THEN st
    ELSE finder_run(t, analyzer, finder_next(t, analyzer, st))

\* extract_imports: ReferenceFinder::new and extract_from for the file at
\* path
extract_imports(t, analyzer, path) ==
    finder_run(t, analyzer,
        finder_enter(t, analyzer, path, <<>>, FinderState("none", <<>>, {}, <<>>, <<>>)))

\* JustfileAnalyzer::file_relevant, called with the lower-case file name
justfile_file_relevant(name) ==
    name = NameJustfile \/ EndsWith(name, <<".", "j", "u", "s", "t">>)

\* MakefileAnalyzer::file_relevant
makefile_file_relevant(name) == name = to_lowercase(NameMakefile)

\* the loop of LanguageAnalyzer::dependencies over the files handed to the
\* analyzer, and the `?`: the first file that fails ends it with the error.
\* collected is the state of the last traversal with all imports so far
RECURSIVE finder_dependencies(_, _, _, _)
finder_dependencies(t, analyzer, entries, collected) ==
    IF entries = <<>> \/ collected.err # "none" THEN collected
    ELSE finder_dependencies(t, analyzer, Tail(entries),
             [extract_imports(t, analyzer, EntryPath(Head(entries)))
                 EXCEPT !.imports = collected.imports \o @,
                        !.read = collected.read \o @])

(***************************************************************************)
(* Service::discover (src/src/service.rs)                                  *)
(***************************************************************************)
\* DepsfileType and the order its declaration gives (merge compares with >)
DepsfileTypes == {"Depsfile", "Buildfile", "Justfile", "Makefile"}
DepsfileTypeRank(filetype) ==
    CASE filetype = "Depsfile" -> 0
      [] filetype = "Buildfile" -> 1
      [] filetype = "Justfile" -> 2
      [] filetype = "Makefile" -> 3

\* every kind accepted, opted in or not
is_supported_always(roots, filetype) ==
    TRUE

\* Opts::is_supported (src/src/cli.rs)
is_supported(roots, filetype) == filetype = "Depsfile" \/ filetype \in roots

\* a classification that takes Buildfile.yaml without asking the options
map_depsfile_buildfile_free(filename, roots) ==
    CASE filename = NameDepsfile -> "Depsfile"
      [] filename = NameBuildfile -> "Buildfile"
      [] filename = NameJustfile /\ "Justfile" \in roots -> "Justfile"
      [] filename = NameMakefile /\ "Makefile" \in roots -> "Makefile"
      [] OTHER -> "None"

\* map_depsfile; "None" stands for Option::None
map_depsfile(filename, roots) ==
    LET filetype == CASE filename = NameDepsfile -> "Depsfile"
                      [] filename = NameBuildfile -> "Buildfile"
                      [] filename = NameJustfile -> "Justfile"
                      [] filename = NameMakefile -> "Makefile"
                      [] OTHER -> "None"
    IN IF filetype # "None" /\ is_supported(roots, filetype) THEN filetype ELSE "None"

NoContext == [filetype |-> "None"]

\* ServiceContext::from_depsfile
from_depsfile(t, entry, roots) ==
    LET filetype == map_depsfile(file_name(entry), roots) IN
    IF filetype = "None" THEN NoContext
    ELSE IF ~ is_file(t, entry) THEN NoContext
    ELSE [filetype          |-> filetype,
          depsfile_location |-> PathInfo_new(EntryPath(entry), Root),
          service_location  |-> PathInfo_new(Parent(EntryPath(entry)), Root)]

\* a merge that keeps the context the walk met first
merge_first_wins(self, other, roots) ==
    self

\* ServiceContext::merge
merge(self, other, roots) ==
    IF self.filetype = "Depsfile" \/ ~ is_supported(roots, other.filetype)
    THEN self
    ELSE IF \/ ~ is_supported(roots, self.filetype)
            \/ DepsfileTypeRank(self.filetype) > DepsfileTypeRank(other.filetype)
         THEN other
         ELSE self

\* the loop body without the test of lines 321-323 for the target directory
RECURSIVE collect_contexts_with_root(_, _, _, _)
collect_contexts_with_root(ctxs, t, order, roots) ==
    IF order = <<>> THEN ctxs
    ELSE LET ctx == from_depsfile(t, Head(order), roots)
             key == ctx.service_location.canonicalized
             next == IF ctx = NoContext THEN ctxs
                     ELSE IF key \notin DOMAIN ctxs THEN ctxs @@ (key :> ctx)
                     ELSE [ctxs EXCEPT ![key] = merge(@, ctx, roots)]
         IN collect_contexts_with_root(next, t, Tail(order), roots)

\* lines 317-332 of discover: the loop body for the entries of order, one
\* after the other
RECURSIVE collect_contexts(_, _, _, _)
collect_contexts(ctxs, t, order, roots) ==
    IF order = <<>> THEN ctxs
    ELSE LET ctx == from_depsfile(t, Head(order), roots)
             key == ctx.service_location.canonicalized
             next == IF ctx = NoContext THEN ctxs
                     ELSE IF key = Root THEN ctxs
                     ELSE IF key \notin DOMAIN ctxs THEN ctxs @@ (key :> ctx)
                     ELSE [ctxs EXCEPT ![key] = merge(@, ctx, roots)]
         IN collect_contexts(next, t, Tail(order), roots)

\* Depsfile::load (src/src/config.rs): a Depsfile or Buildfile.yaml is read
\* and parsed, which fails on a file that is gone or malformed; a justfile
\* or Makefile gives the empty Depsfile without being read.  tree.depsfiles
\* holds, for each readable marker, the dependency strings and the known
\* languages its document lists
LoadOk(depsfile) == [ok |-> TRUE, depsfile |-> depsfile]
LoadErr == [ok |-> FALSE]
Depsfile_empty == [dependencies |-> <<>>, languages |-> <<>>]

\* a load that gives the empty Depsfile for a marker it cannot read
Depsfile_load_lenient(t, file_type, file, root_dir) ==
    IF file_type \in {"Justfile", "Makefile"} THEN LoadOk(Depsfile_empty)
    ELSE IF ~ path_is_file(t, file) \/ EntryOf(file) \in t.unreadable
         THEN LoadOk(Depsfile_empty)
    ELSE LET yaml == t.depsfiles[EntryOf(file)] IN
         LoadOk([dependencies |-> [i \in DOMAIN yaml.dependencies |->
                                      DepPattern_new(yaml.dependencies[i], root_dir)],
                 languages    |-> yaml.languages])

Depsfile_load(t, file_type, file, root_dir) ==
    IF file_type \in {"Justfile", "Makefile"} THEN LoadOk(Depsfile_empty)
    ELSE IF ~ path_is_file(t, file) \/ EntryOf(file) \in t.unreadable THEN LoadErr
    ELSE LET yaml == t.depsfiles[EntryOf(file)] IN
         LoadOk([dependencies |-> [i \in DOMAIN yaml.dependencies |->
                                      DepPattern_new(yaml.dependencies[i], root_dir)],
                 languages    |-> yaml.languages])

\* Path::extension of a file name: what follows the last dot, <<>> (None)
\* without a dot other than a leading one
extension(name) ==
    LET dots == { i \in 2..Len(name) : name[i] = "." } IN
    IF dots = {} THEN <<>>
    ELSE SubSeq(name, (CHOOSE i \in dots : \A j \in dots : j <= i) + 1, Len(name))

NoLanguage == [language |-> "None", score |-> 0]
LanguageMatch(language, score) == [language |-> language, score |-> score]

\* try_determine_language: by extension first, by file name then
try_determine_language(entry) ==
    LET ext == extension(file_name(entry))
        name == file_name(entry)
    IN CASE ext = <<"c", "s">> -> LanguageMatch("Dotnet", 1)
         [] ext = <<"c", "s", "p", "r", "o", "j">> -> LanguageMatch("Dotnet", 5)
         [] ext = <<"g", "o">> -> LanguageMatch("Golang", 1)
         [] ext = <<"d", "a", "r", "t">> -> LanguageMatch("Flutter", 1)
         [] ext = <<"p", "r", "o", "t", "o">> -> LanguageMatch("Protobuf", 3)
         [] ext = <<"j", "u", "s", "t">> -> LanguageMatch("Justfile", 3)
         [] ext \in { <<"j", "s">>, <<"j", "s", "x">>, <<"t", "s", "x">>, <<"t", "s">> } ->
                LanguageMatch("JavaScript", 1)
         [] OTHER ->
                CASE name \in { <<"p", "u", "b", "s", "p", "e", "c", ".", "y", "a", "m", "l">>,
                                <<"p", "u", "b", "s", "p", "e", "c", ".", "l", "o", "c", "k">> } ->
                         LanguageMatch("Flutter", 5)
                  [] name \in { <<"g", "o", ".", "m", "o", "d">>,
                                <<"g", "o", ".", "s", "u", "m">> } ->
                         LanguageMatch("Golang", 5)
                  [] name \in { NameKustomizationYaml, NameKustomizationYml } ->
                         LanguageMatch("Kustomize", 5)
                  [] name = <<"p", "a", "c", "k", "a", "g", "e", ".", "j", "s", "o", "n">> ->
                         LanguageMatch("JavaScript", 5)
                  [] name = NameJustfile -> LanguageMatch("Justfile", 5)
                  [] OTHER -> NoLanguage

\* the Language values service.rs names
Languages ==
    {"Golang", "Dotnet", "Flutter", "Kustomize", "JavaScript", "Protobuf", "Justfile"}

RECURSIVE SumScores(_, _)
SumScores(entries, language) ==
    IF entries = {} THEN 0
    ELSE LET e == CHOOSE x \in entries : TRUE
             m == try_determine_language(e)
         IN (IF m.language = language THEN m.score ELSE 0)
                + SumScores(entries \ {e}, language)

\* lines 351-358 of auto_discover_languages: the HashMap of the summed
\* scores, with a key for every language some entry of the walk matched
filetype_frequencies(t, path) ==
    LET entries == non_hidden_files(t, EntryOf(path.canonicalized))
        keys == { try_determine_language(e).language : e \in entries } \ {"None"}
    IN [language \in keys |-> SumScores(entries, language)]

\* a filter that asks for more than 3
keep_language_above(score) ==
    score > 3

\* lines 360-364: the languages kept, score at least 3
keep_language(score) == score >= 3

\* auto_discover_languages; order is the order in which the HashMap yields
\* its keys
auto_discover_languages(t, depsfile, path, order) ==
    IF depsfile.languages # <<>> THEN depsfile
    ELSE LET frequencies == filetype_frequencies(t, path) IN
         [depsfile EXCEPT !.languages =
             SelectSeq(order, LAMBDA language : keep_language(frequencies[language]))]

\* Config::auto_discovery_enabled: Go needs configured package prefixes,
\* which the configuration of the tests has
auto_discovery_enabled(language) == TRUE

(***************************************************************************)
(* ProtoAnalyzer (src/src/service/proto.rs) and the Go analyzer            *)
(* (src/src/service/go.rs)                                                 *)
(***************************************************************************)
\* is_proto
is_proto(entry) ==
    entry # <<>> /\ eq_ignore_ascii_case(extension(file_name(entry)), <<"p", "r", "o", "t", "o">>)

\* find_all_proto_files for the target directory: the PathInfo of every
\* proto file the walk yields, in the order of the walk
find_all_proto_files(t, walked) ==
    LET protos == SelectSeq(walked,
                      LAMBDA e : e \in non_hidden_files(t, <<>>) /\ is_proto(e))
    IN [i \in DOMAIN protos |-> PathInfo_new(EntryPath(protos[i]), Root)]

\* extract_from_import of proto.rs: the first known proto file whose
\* canonical path ends with the quoted text
proto_extract_from_import(line, proto_candidates) ==
    IF splitn3_middle(line, "\"") = <<>> THEN <<>>
    ELSE LET referenced_import ==
                 SelectSeq(proto_candidates,
                     LAMBDA proto :
                         EndsWith(proto.canonicalized, splitn3_middle(line, "\"")[1]))
         IN IF referenced_import = <<>> THEN <<>>
            ELSE << DepPattern_new(referenced_import[1].canonicalized,
                                   referenced_import[1].canonicalized) >>

\* extract_proto_imports: the imports on the lines the loop reads, which are
\* the first proto_SCAN_MAX_LINES ones; the imports of the file are not
\* followed
extract_proto_imports(t, path, proto_candidates) ==
    LET lines == read_lines(t, path).lines
        scanned == SubSeq(lines, 1, IF Len(lines) > proto_SCAN_MAX_LINES
                                    THEN proto_SCAN_MAX_LINES ELSE Len(lines))
        hits == SelectSeq(scanned,
                    LAMBDA line : /\ StartsWith(line, KwImport)
                                  /\ proto_extract_from_import(line, proto_candidates) # <<>>)
    IN Flatten([i \in DOMAIN hits |-> proto_extract_from_import(hits[i], proto_candidates)])

\* the proto files ProtoAnalyzer::dependencies finds below dir, in the order
\* of the walk
proto_entries(t, dir, walked) ==
    SelectSeq(walked, LAMBDA e : e \in non_hidden_files(t, EntryOf(dir)) /\ is_proto(e))

AnalyzerOk(deps) == [ok |-> TRUE, deps |-> deps]
AnalyzerErr == [ok |-> FALSE, deps |-> <<>>]

\* ProtoAnalyzer::dependencies: the imports of every proto file below dir;
\* the `?` makes a file that cannot be read the result of the whole call
ProtoAnalyzer_dependencies(t, dir, walked) ==
    IF \E i \in DOMAIN proto_entries(t, dir, walked) :
           ~ read_lines(t, EntryPath(proto_entries(t, dir, walked)[i])).ok
    THEN AnalyzerErr
    ELSE AnalyzerOk(Flatten([i \in DOMAIN proto_entries(t, dir, walked) |->
             extract_proto_imports(t, EntryPath(proto_entries(t, dir, walked)[i]),
                 find_all_proto_files(t, walked))]))

\* config.auto_discovery.go.package_prefixes
package_prefixes == << <<"m", ".", "i", "o">> >>

\* str::trim_start_matches
RECURSIVE trim_start_matches(_, _)
trim_start_matches(s, prefix) ==
    IF prefix # <<>> /\ StartsWith(s, prefix)
    THEN trim_start_matches(SubSeq(s, Len(prefix) + 1, Len(s)), prefix)
    ELSE s

\* str::trim_matches of one character
trim_matches(s, c) ==
    LET keep == { i \in 1..Len(s) : s[i] # c } IN
    IF keep = {} THEN <<>>
    ELSE SubSeq(s, CHOOSE i \in keep : \A j \in keep : i <= j,
                   CHOOSE i \in keep : \A j \in keep : j <= i)

\* extract_from_line of go.rs: the quoted text without the first package
\* prefix it starts with, as a list of no or one import
go_extract_from_line(line, prefixes) ==
    IF splitn3_middle(line, "\"") = <<>> THEN <<>>
    ELSE LET import == splitn3_middle(line, "\"")[1]
             matching == SelectSeq(prefixes,
                             LAMBDA module_prefix : StartsWith(import, module_prefix))
         IN IF matching = <<>> THEN <<>>
            ELSE << trim_matches(trim_start_matches(import, matching[1]), "/") >>

\* the body of the loop of find_imports for one line; state holds
\* in_imports and imports
find_imports_line(state, line, prefixes) ==
    IF state.in_imports
    THEN IF Contains(line, <<")">>) THEN [state EXCEPT !.in_imports = FALSE]
         ELSE [state EXCEPT !.imports = @ \o go_extract_from_line(line, prefixes)]
    ELSE IF StartsWith(line, KwImport \o <<" ", "(">>)
         THEN [state EXCEPT !.in_imports = TRUE]
    ELSE IF StartsWith(line, KwImport)
         THEN [state EXCEPT !.imports = @ \o go_extract_from_line(line, prefixes)]
    ELSE state

\* a line on which the body of the loop does something: it starts with
\* import, or holds a closing parenthesis or a quote.  On any other line
\* the body leaves in_imports and imports as they are
find_imports_acts(line) ==
    StartsWith(line, KwImport) \/ Contains(line, <<")">>) \/ Contains(line, <<"\"">>)

\* the loop of find_imports over lines, from state on
RECURSIVE find_imports_from(_, _, _)
find_imports_from(lines, state, prefixes) ==
    IF lines = <<>> THEN state
    ELSE find_imports_from(Tail(lines), find_imports_line(state, Head(lines), prefixes),
             prefixes)

\* find_imports: every line of the file is read, whatever their number
find_imports(lines, prefixes) ==
    find_imports_from(SelectSeq(lines, find_imports_acts),
        [in_imports |-> FALSE, imports |-> <<>>], prefixes).imports

\* the closure given to filter_entry by the walk of go.rs
go_hidden(name) == StartsWith(name, <<".">>)

\* the .go files the walk of go.rs yields below dir
go_entries(t, dir) ==
    { e \in t.files :
        /\ Len(dir) < Len(e)
        /\ SubSeq(e, 1, Len(dir)) = dir
        /\ \A i \in (Len(dir) + 1)..Len(e) : ~ go_hidden(e[i])
        /\ dir # <<>> => ~ go_hidden(dir[Len(dir)])
        /\ EndsWith(to_lowercase(e[Len(e)]), <<".", "g", "o">>) }

\* collected_imports of go.rs: the HashSet of the imports of these files
collected_imports(t, dir) ==
    UNION { { find_imports(read_lines(t, EntryPath(e)).lines, package_prefixes)[i] :
                i \in DOMAIN find_imports(read_lines(t, EntryPath(e)).lines, package_prefixes) } :
            e \in go_entries(t, dir) }

\* dependencies of go.rs: a file that cannot be read is the result of the
\* call; else a pattern for every import, in the order hashed in which the
\* HashSet yields them
go_dependencies(t, dir, hashed) ==
    IF \E e \in go_entries(t, EntryOf(dir)) : ~ read_lines(t, EntryPath(e)).ok
    THEN AnalyzerErr
    ELSE AnalyzerOk([i \in DOMAIN hashed |-> DepPattern_new(hashed[i], Root)])

\* Result<Vec<DepPattern>> of JustfileAnalyzer::dependencies
finder_result(collected) ==
    IF collected.err = "none" THEN AnalyzerOk(collected.imports) ELSE AnalyzerErr

\* the files gather_file_candidates hands to the Justfile analyzer for dir
justfile_candidates(t, dir, walked) ==
    SelectSeq(walked,
        LAMBDA e : /\ e \in non_hidden_files(t, EntryOf(dir))
                   /\ e # <<>>
                   /\ is_file(t, e)
                   /\ justfile_file_relevant(to_lowercase(file_name(e))))

\* Result<Vec<DepPattern>> of the Kustomize analyzer
kustomize_result(found) ==
    IF found.err = "none" THEN AnalyzerOk(found.deps) ELSE AnalyzerErr

\* Result<Vec<DepPattern>> of another analyzer, from what tree.analysis
\* holds for it: the dependency strings, or an error
analysis_result(found) ==
    IF found.ok
    THEN AnalyzerOk([i \in DOMAIN found.deps |-> DepPattern_new(found.deps[i], Root)])
    ELSE AnalyzerErr

\* the files of the walk that a scanner of the text of files reads: the
\* justfiles and the .go files below dir and the proto files of the target.
\* A tree without tree.lines has no such file
scanned_entries(t, dir) ==
    IF "lines" \notin DOMAIN t THEN {}
    ELSE { e \in non_hidden_files(t, dir) :
             /\ e # <<>>
             /\ is_file(t, e)
             /\ justfile_file_relevant(to_lowercase(file_name(e))) }
           \cup go_entries(t, dir)
           \cup { e \in non_hidden_files(t, <<>>) : is_proto(e) }

\* the files the walks of the analyzers yield for the service directory dir
walked_entries(t, dir) == kustomization_entries(t, dir) \cup scanned_entries(t, dir)

\* the imports the HashSet of go.rs holds for dir
hashed_imports(t, dir) ==
    IF "lines" \notin DOMAIN t THEN {} ELSE collected_imports(t, dir)

\* LanguageAnalyzer::dependencies of the analyzer of one language for the
\* service directory dir.  The Kustomize analyzer is computed on the tree;
\* tree.analysis holds what the analyzers named there return on it; the
\* Justfile, Protobuf and Go analyzers are computed on tree.lines when
\* tree.analysis does not name them.  walked is the order in which the walk
\* yields the files, hashed the order in which the HashSet of go.rs yields
\* its imports
analyzer_dependencies(t, language, dir, walked, hashed) ==
    IF language = "Kustomize"
    THEN kustomize_result(
             KustomizeAnalyzer_dependencies(t, dir,
                 SelectSeq(walked, LAMBDA e : e \in kustomization_entries(t, EntryOf(dir))),
                 KustomizeOk(<<>>, {})))
    ELSE IF language \in DOMAIN t.analysis THEN analysis_result(t.analysis[language])
    ELSE IF language = "Justfile"
         THEN finder_result(finder_dependencies(t, "Justfile",
                  justfile_candidates(t, dir, walked),
                  FinderState("none", <<>>, {}, <<>>, <<>>)))
    ELSE IF language = "Protobuf" THEN ProtoAnalyzer_dependencies(t, dir, walked)
    ELSE go_dependencies(t, dir, hashed)

AutoDependency(language, pattern) == [language |-> language, pattern |-> pattern]

\* lines 149-162 of Analyzer::discover: the dependencies of an analyzer that
\* succeeded, each with its language; an analyzer that fails is logged and
\* contributes nothing
found_dependencies(language, outcome) ==
    IF ~ auto_discovery_enabled(language) THEN <<>>
    ELSE IF outcome.ok
         THEN [i \in DOMAIN outcome.deps |-> AutoDependency(language, outcome.deps[i])]
    ELSE <<>>

\* Analyzer::discover: the analyzers of the languages, in the order of the
\* list
RECURSIVE Analyzer_discover(_, _, _, _, _)
Analyzer_discover(t, languages, dir, walked, hashed) ==
    IF languages = <<>> THEN <<>>
    ELSE found_dependencies(Head(languages),
             analyzer_dependencies(t, Head(languages), dir, walked, hashed))
           \o Analyzer_discover(t, Tail(languages), dir, walked, hashed)

\* DepPattern::hash; <<>> stands for None
hash(pattern) == IF pattern.pattern # NoRegex THEN <<>> ELSE pattern.raw.canonicalized

\* the filter without the HashSet: only the test of the service directory
RECURSIVE filter_auto_dependencies_within_only(_, _, _)
filter_auto_dependencies_within_only(service_dir, found, unique_auto_dep_paths) ==
    IF found = <<>> THEN <<>>
    ELSE (IF not_within_service(service_dir, Head(found).pattern)
          THEN <<Head(found)>> ELSE <<>>)
             \o filter_auto_dependencies_within_only(service_dir, Tail(found),
                    unique_auto_dep_paths)

\* lines 282-301 of discover_service: the filter over what the analyzers
\* found, with the HashSet unique_auto_dep_paths it fills as it goes
RECURSIVE filter_auto_dependencies(_, _, _)
filter_auto_dependencies(service_dir, found, unique_auto_dep_paths) ==
    IF found = <<>> THEN <<>>
    ELSE LET auto_dep == Head(found)
             within == ~ not_within_service(service_dir, auto_dep.pattern)
             h == hash(auto_dep.pattern)
             inserted == h \notin unique_auto_dep_paths
             keep == ~ within /\ (h = <<>> \/ inserted)
             seen == IF ~ within /\ h # <<>>
                     THEN unique_auto_dep_paths \cup {h}
                     ELSE unique_auto_dep_paths
         IN (IF keep THEN <<auto_dep>> ELSE <<>>)
                \o filter_auto_dependencies(service_dir, Tail(found), seen)

ServiceOk(service) == [ok |-> TRUE, service |-> service]
ServiceErr == [ok |-> FALSE]

\* lines 278-308 of discover_service, for the Depsfile the marker gave
analyze_service(t, ctx, depsfile, walked, hashed) ==
    ServiceOk([path              |-> ctx.service_location,
               depsfile          |-> depsfile,
               auto_dependencies |->
                   filter_auto_dependencies(ctx.service_location,
                       Analyzer_discover(t, depsfile.languages,
                           ctx.service_location.canonicalized, walked, hashed), {}),
               trigger           |-> None])

\* lines 271-278: the marker is loaded, which may fail, and the languages
\* are inferred if it names none
load_service(t, ctx, base_depsfile, languages, walked, hashed) ==
    IF ~ base_depsfile.ok THEN ServiceErr
    ELSE analyze_service(t, ctx,
             auto_discover_languages(t, base_depsfile.depsfile, ctx.service_location,
                 languages),
             walked, hashed)

\* Service::discover_service; languages is the order of the inferred
\* languages, walked the order in which the walks of the analyzers yield
\* the files, hashed the order of the imports of go.rs
discover_service(t, ctx, languages, walked, hashed) ==
    load_service(t, ctx,
        Depsfile_load(t, ctx.filetype, ctx.depsfile_location.canonicalized, Root),
        languages, walked, hashed)

\* Result<Vec<Service>> while discover collects it and when it returns
Discovering(services) == [status |-> "running", services |-> services]
Discovered(services) == [status |-> "ok", services |-> services]
DiscoverErr == [status |-> "err", services |-> <<>>]

\* the regular files the walk yields directly in directory dir
files_in(t, dir) ==
    { e \in non_hidden_files(t, <<>>) :
        /\ is_file(t, e)
        /\ Len(e) = Len(dir) + 1
        /\ SubSeq(e, 1, Len(dir)) = dir }

\* the directories the walk of the target yields
walk_directories(t) == { e \in non_hidden_files(t, <<>>) : ~ is_file(t, e) }

\* lines 317-332 of discover, for one directory of the walk: the directory
\* and the files in it, in the order read_dir yields them
VisitDirectory ==
    /\ pc = "walk"
    /\ \E dir \in walk :
       \E order \in Orderings({dir} \cup files_in(tree, dir)) :
          /\ contexts' = collect_contexts(contexts, tree, order, supported_roots)
          /\ walk' = walk \ {dir}
          /\ pc' = IF walk \ {dir} = {} THEN "services" ELSE "walk"
    /\ UNCHANGED <<service_map, changed_files, global_dependencies, canon_changed_files,
                   updated, idx, passes, result, tree, supported_roots, discovered>>

\* lines 335-338 of discover: discover_service on the next context the
\* HashMap yields; the first error ends the collection and is what discover
\* returns, and main::dependencies then exits without calling resolve
DiscoverService ==
    /\ pc = "services"
    /\ \E key \in DOMAIN contexts :
       LET ctx == contexts[key] IN
       \E languages \in Orderings(DOMAIN filetype_frequencies(tree, ctx.service_location)) :
       \E walked \in Orderings(walked_entries(tree, EntryOf(key))) :
       \E hashed \in Orderings(hashed_imports(tree, EntryOf(key))) :
       \E found \in { discover_service(tree, ctx, languages, walked, hashed) } :
          /\ contexts' = [k \in DOMAIN contexts \ {key} |-> contexts[k]]
          /\ IF found.ok
             THEN /\ discovered' = Discovering(Append(discovered.services, found.service))
                  /\ UNCHANGED <<pc, result>>
             ELSE /\ discovered' = DiscoverErr
                  /\ result' = Err
                  /\ pc' = "done"
    /\ UNCHANGED <<service_map, changed_files, global_dependencies, canon_changed_files,
                   updated, idx, passes, tree, supported_roots, walk>>

\* the Service as resolve reads it: its path, the declared patterns
\* (depsfile.dependencies), the patterns of auto_dependencies, its trigger
resolve_service(service) ==
    [path              |-> service.path,
     dependencies      |-> { service.depsfile.dependencies[i] :
                                 i \in DOMAIN service.depsfile.dependencies },
     auto_dependencies |-> { service.auto_dependencies[i].pattern :
                                 i \in DOMAIN service.auto_dependencies },
     trigger           |-> service.trigger]

\* main::dependencies, lines 44-49: discover has returned its services and
\* resolve is called with them and the changed files
CallResolve ==
    /\ pc = "services"
    /\ DOMAIN contexts = {}
    /\ discovered' = Discovered(discovered.services)
    /\ service_map' =
          [p \in { discovered.services[i].path.canonicalized : i \in DOMAIN discovered.services } |->
              resolve_service(discovered.services[
                  CHOOSE i \in DOMAIN discovered.services :
                      discovered.services[i].path.canonicalized = p])]
    /\ pc' = "global"
    /\ UNCHANGED <<changed_files, global_dependencies, canon_changed_files, updated, idx,
                   passes, result, tree, supported_roots, walk, contexts>>

\* main::dependencies: discovery, then the resolver
DiscoverNext ==
    \/ VisitDirectory
    \/ DiscoverService
    \/ CallResolve
    \/ CheckGlobal
    \/ CheckFileDependency
    \/ DirectDependencies
    \/ PeerDependencies

\* main::dependencies is called: nothing is discovered or resolved yet
StartOfRun ==
    /\ walk = walk_directories(tree)
    /\ contexts = <<>>
    /\ discovered = Discovering(<<>>)
    /\ service_map = <<>>
    /\ canon_changed_files = <<>>
    /\ updated = <<>>
    /\ idx = 1
    /\ passes = 0
    /\ pc = "walk"
    /\ result = Running

(***************************************************************************)
(* Repositories with marker files                                          *)
(***************************************************************************)
\* largest number of files below the target directory
MaxFiles == 3

DirA == <<"a">>
DirAB == <<"a", "b">>
DirHidden == <<".", "h">>
MarkerNames == {NameDepsfile, NameBuildfile, NameJustfile, NameMakefile}

\* the files a repository may hold: a Depsfile and a justfile in the target
\* directory itself, each marker in a, a Depsfile and a Makefile in ab, a
\* Depsfile in the hidden directory .h, and the plain file a/x
MarkerUniverse ==
    { <<NameDepsfile>>, <<NameJustfile>> }
        \cup { <<DirA, name>> : name \in MarkerNames }
        \cup { <<DirAB, NameDepsfile>>, <<DirAB, NameMakefile>> }
        \cup { <<DirHidden, NameDepsfile>>, <<DirA, <<"x">>>> }

IsYamlMarker(entry) == file_name(entry) \in {NameDepsfile, NameBuildfile}

\* what the markers of these repositories declare: a/Depsfile depends on ab,
\* a/Buildfile.yaml on c and names Go as its builder, ab/Depsfile depends on
\* a, a Depsfile elsewhere on c
MarkerDocument(entry) ==
    LET dir == SubSeq(entry, 1, Len(entry) - 1)
        depsfile == file_name(entry) = NameDepsfile
    IN [dependencies |->
            IF dir = <<DirA>> /\ depsfile THEN << <<"a", "b">> >>
            ELSE IF dir = <<DirAB>> THEN << <<"a">> >>
            ELSE << <<"c">> >>,
        languages |->
            IF dir = <<DirA>> /\ ~ depsfile THEN <<"Golang">> ELSE <<>>]

\* what the analyzers report in these repositories: the justfile analyzer
\* an import of c, the Go analyzer an error, the others nothing
MarkerAnalysis ==
    [language \in Languages \ {"Kustomize"} |->
        IF language = "Justfile" THEN [ok |-> TRUE, deps |-> << <<"c">> >>]
        ELSE IF language = "Golang" THEN [ok |-> FALSE, deps |-> <<>>]
        ELSE [ok |-> TRUE, deps |-> <<>>]]

MarkerTree(files, unreadable) ==
    [files          |-> files,
     unreadable     |-> unreadable,
     depsfiles      |-> [e \in { f \in files : IsYamlMarker(f) } |-> MarkerDocument(e)],
     kustomizations |-> <<>>,
     analysis       |-> MarkerAnalysis]

DiscoverInit ==
    /\ \E files \in BoundedSubsets(MarkerUniverse, MaxFiles) :
       \E unreadable \in BoundedSubsets({ f \in files : IsYamlMarker(f) }, 1) :
           tree = MarkerTree(files, unreadable)
    /\ supported_roots \in SUBSET (DepsfileTypes \ {"Depsfile"})
    /\ changed_files = << <<"a", "/", "x">> >>
    /\ global_dependencies = <<>>
    /\ StartOfRun

DiscoverSpec == DiscoverInit /\ [][DiscoverNext]_vars

(***************************************************************************)
(* Repositories whose analyzers report dependencies                        *)
(***************************************************************************)
\* largest number of dependencies the Go analyzer reports for a service
MaxFound == 2

\* what an analyzer may report for the service a: c, ./c (the same path
\* written differently), a/x (inside a), a itself, ab, and the globs c* and
\* a/*
AutoUniverse ==
    { <<"c">>, <<".", "/", "c">>, <<"a", "/", "x">>, <<"a">>, <<"a", "b">>,
      <<"c", "*">>, <<"a", "/", "*">> }

\* the order in which the Depsfile of a lists its languages
AutoLanguages == { <<"Golang", "Dotnet">>, <<"Dotnet", "Golang">> }

\* the repository: a/Depsfile declaring the languages, the Go and the .NET
\* analyzer reporting golang and dotnet
AutoTree(languages, golang, dotnet) ==
    [files          |-> { <<DirA, NameDepsfile>> },
     unreadable     |-> {},
     depsfiles      |-> (<<DirA, NameDepsfile>> :>
                            [dependencies |-> <<>>, languages |-> languages]),
     kustomizations |-> <<>>,
     analysis       |->
         [language \in Languages \ {"Kustomize"} |->
             IF language = "Golang" THEN [ok |-> TRUE, deps |-> golang]
             ELSE IF language = "Dotnet" THEN [ok |-> TRUE, deps |-> dotnet]
             ELSE [ok |-> TRUE, deps |-> <<>>]]]

AutoInit ==
    /\ \E languages \in AutoLanguages :
       \E golang \in BoundedSeqs(AutoUniverse, MaxFound) :
       \E dotnet \in BoundedSeqs(AutoUniverse, 1) :
           tree = AutoTree(languages, golang, dotnet)
    /\ supported_roots = {}
    /\ changed_files = << <<"c", "/", "x">> >>
    /\ global_dependencies = <<>>
    /\ StartOfRun

AutoSpec == AutoInit /\ [][DiscoverNext]_vars

(***************************************************************************)
(* Repositories whose languages are inferred                               *)
(***************************************************************************)
GoFile(stem) == <<stem, ".", "g", "o">>
NameProto == <<"p", ".", "p", "r", "o", "t", "o">>
NameGoMod == <<"g", "o", ".", "m", "o", "d">>

\* the files the service a may hold next to its Depsfile: x.go, y.go, z.go,
\* p.proto, go.mod, w.go in the directory s, v.go in the hidden directory
\* .h and u.go in node_modules
LanguageUniverse ==
    { <<DirA, GoFile("x")>>, <<DirA, GoFile("y")>>, <<DirA, GoFile("z")>>,
      <<DirA, NameProto>>, <<DirA, NameGoMod>>,
      <<DirA, <<"s">>, GoFile("w")>>,
      <<DirA, DirHidden, GoFile("v")>>,
      <<DirA, NameNodeModules, GoFile("u")>> }

\* the languages the Depsfile of a may declare: none, or .NET
DeclaredLanguages == { <<>>, <<"Dotnet">> }

\* the repository: a/Depsfile and the files; the Go analyzer reports c
LanguageTree(files, languages) ==
    [files          |-> { <<DirA, NameDepsfile>> } \cup files,
     unreadable     |-> {},
     depsfiles      |-> (<<DirA, NameDepsfile>> :>
                            [dependencies |-> <<>>, languages |-> languages]),
     kustomizations |-> <<>>,
     analysis       |->
         [language \in Languages \ {"Kustomize"} |->
             IF language = "Golang" THEN [ok |-> TRUE, deps |-> << <<"c">> >>]
             ELSE [ok |-> TRUE, deps |-> <<>>]]]

LanguageInit ==
    /\ \E files \in BoundedSubsets(LanguageUniverse, MaxFiles) :
       \E languages \in DeclaredLanguages :
           tree = LanguageTree(files, languages)
    /\ supported_roots = {}
    /\ changed_files = << <<"c", "/", "x">> >>
    /\ global_dependencies = <<>>
    /\ StartOfRun

LanguageSpec == LanguageInit /\ [][DiscoverNext]_vars

(***************************************************************************)
(* Repositories with kustomizations                                        *)
(***************************************************************************)
\* largest number of references the kustomization of the service lists
MaxRefs == 2

DirK == <<"k">>

\* the keys of a kustomization that hold references
KustomizeKeys == {"resources", "bases", "components", "patches", "configMapGenerator"}

\* the kustomization that lists refs under key: for patches the path of
\* each entry, for configMapGenerator the files of one entry
KustomizeDocument(key, refs) == [k \in KustomizeKeys |-> IF k = key THEN refs ELSE <<>>]

\* what a/kustomization.yaml may reference: the directory ../k, the file
\* ../k/p, the file Depsfile next to it, the missing ../n, and its own
\* directory ../a
ServiceReferences ==
    { <<".", ".", "/", "k">>, <<".", ".", "/", "k", "/", "p">>, NameDepsfile,
      <<".", ".", "/", "n">>, <<".", ".", "/", "a">> }

\* what the kustomization of k may hold: nothing, the file p, the missing q,
\* the directory ../a of the service (under bases), or p and ../a
BaseDocuments ==
    { KustomizeDocument("resources", <<>>),
      KustomizeDocument("resources", << <<"p">> >>),
      KustomizeDocument("resources", << <<"q">> >>),
      KustomizeDocument("bases", << <<".", ".", "/", "a">> >>),
      [KustomizeDocument("bases", << <<".", ".", "/", "a">> >>)
           EXCEPT !.resources = << <<"p">> >>] }

\* the kustomization file of k: kustomization.yaml, kustomization.yml, or
\* none (<<>>)
BaseFiles == { <<DirK, NameKustomizationYaml>>, <<DirK, NameKustomizationYml>>, <<>> }

\* the repository: the service a with kustomization.yaml and a Depsfile
\* that names Kustomize and Go; the directory k with the file p and, if
\* any, its kustomization; the Go analyzer reports c
KustomizeTree(service, basefile, base) ==
    [files          |-> { <<DirA, NameDepsfile>>, <<DirA, NameKustomizationYaml>>,
                          <<DirK, <<"p">>>> }
                            \cup (IF basefile = <<>> THEN {} ELSE {basefile}),
     unreadable     |-> {},
     depsfiles      |-> (<<DirA, NameDepsfile>> :>
                            [dependencies |-> <<>>, languages |-> <<"Kustomize", "Golang">>]),
     kustomizations |->
         IF basefile = <<>> THEN (<<DirA, NameKustomizationYaml>> :> service)
         ELSE (<<DirA, NameKustomizationYaml>> :> service) @@ (basefile :> base),
     analysis       |->
         [language \in Languages \ {"Kustomize"} |->
             IF language = "Golang" THEN [ok |-> TRUE, deps |-> << <<"c">> >>]
             ELSE [ok |-> TRUE, deps |-> <<>>]]]

KustomizeInit ==
    /\ \E key \in KustomizeKeys :
       \E refs \in BoundedSeqs(ServiceReferences, MaxRefs) :
       \E basefile \in BaseFiles :
       \E base \in (IF basefile = <<>> THEN {KustomizeDocument("resources", <<>>)}
                     ELSE BaseDocuments) :
           tree = KustomizeTree(KustomizeDocument(key, refs), basefile, base)
    /\ supported_roots = {}
    /\ changed_files = << <<"k", "/", "p">> >>
    /\ global_dependencies = <<>>
    /\ StartOfRun

KustomizeSpec == KustomizeInit /\ [][DiscoverNext]_vars

(***************************************************************************)
(* Repositories whose files are scanned as text                            *)
(***************************************************************************)
DirP == <<"p">>
DirJ == <<"j">>
DirM == <<"m">>
DirN == <<"n">>
DirS == <<"s">>

\* a file of n lines, the last of which is line and the others empty
Padded(n, line) == [i \in 1..n |-> IF i = n THEN line ELSE <<>>]

\* the line numbers at which the scenarios place the only reference of a
\* file: the first line and the lines on both sides of the two caps
ReferenceLines ==
    {1, proto_SCAN_MAX_LINES, proto_SCAN_MAX_LINES + 1, SCAN_MAX_LINES, SCAN_MAX_LINES + 1}

\* what the analyzers that are not computed return on these repositories
NoAnalysis ==
    [language \in {"Dotnet", "Flutter", "JavaScript"} |-> [ok |-> TRUE, deps |-> <<>>]]

\* the repository with the text files text (their lines), the
\* kustomizations yamls and the unreadable files; a Depsfile is empty, so
\* that the languages of its service are inferred
ScanTree(text, yamls, unreadable) ==
    [files          |-> DOMAIN text \cup DOMAIN yamls,
     unreadable     |-> unreadable,
     depsfiles      |-> [e \in { f \in DOMAIN text : file_name(f) = NameDepsfile } |->
                            [dependencies |-> <<>>, languages |-> <<>>]],
     kustomizations |-> yamls,
     analysis       |-> NoAnalysis,
     lines          |-> text @@ [e \in DOMAIN yamls |-> <<>>]]

NoYamls == [e \in {} |-> <<>>]

ProtoImportB == <<"i", "m", "p", "o", "r", "t", " ", "\"", "b", ".", "p", "r", "o", "t", "o", "\"", ";">>
ProtoImportC == <<"i", "m", "p", "o", "r", "t", " ", "\"", "c", ".", "p", "r", "o", "t", "o", "\"", ";">>
ProtoImportA == <<"i", "m", "p", "o", "r", "t", " ", "\"", "a", "/", "a", ".", "p", "r", "o", "t", "o", "\"", ";">>

\* the service a with a.proto, which imports b.proto on line n; p/b.proto
\* imports c.proto; p/c.proto holds the lines last
ProtoTrees ==
    { ScanTree((<<DirA, NameDepsfile>> :> <<>>)
                 @@ (<<DirA, <<"a", ".", "p", "r", "o", "t", "o">>>> :> Padded(n, ProtoImportB))
                 @@ (<<DirP, <<"b", ".", "p", "r", "o", "t", "o">>>> :> <<ProtoImportC>>)
                 @@ (<<DirP, <<"c", ".", "p", "r", "o", "t", "o">>>> :> last),
               NoYamls, {}) :
        n \in ReferenceLines,
        last \in { <<>>, <<ProtoImportB>>, <<ProtoImportA>> } }

JustImportLib == <<"i", "m", "p", "o", "r", "t", " ", "'", ".", ".", "/", "j", "/", "b", ".", "j", "u", "s", "t", "'">>
JustImportService == <<"i", "m", "p", "o", "r", "t", " ", "'", ".", ".", "/", "a", "/", "j", "u", "s", "t", "f", "i", "l", "e", "'">>
JustImportMissing == <<"i", "m", "p", "o", "r", "t", " ", "'", "g", "o", "n", "e", "'">>
JustModC == <<"m", "o", "d", " ", "c">>
JustModQuoted == <<"m", "o", "d", " ", "c", " ", "'", ".", ".", "/", "c", "/", "x", "'">>

\* the service a with its justfile, which imports ../j/b.just on line n;
\* j/b.just holds the lines lib; j/c.just imports b.just
JustfileTrees ==
    { ScanTree((<<DirA, NameJustfile>> :> Padded(n, JustImportLib))
                 @@ (<<DirJ, <<"b", ".", "j", "u", "s", "t">>>> :> lib)
                 @@ (<<DirJ, <<"c", ".", "j", "u", "s", "t">>>> :> << <<"i", "m", "p", "o", "r", "t", " ", "'", "b", ".", "j", "u", "s", "t", "'">> >>),
               NoYamls, unreadable) :
        n \in {1, SCAN_MAX_LINES, SCAN_MAX_LINES + 1},
        lib \in { <<>>, <<JustImportService>>, <<JustImportMissing, JustImportService>>,
                  <<JustModC, JustImportMissing>>, <<JustModQuoted>> },
        unreadable \in { {}, { <<DirJ, <<"b", ".", "j", "u", "s", "t">>>> } } }

\* the service a with its justfile and the file x.just, each of which may
\* be unreadable, and the file j/b.just
TwoJustfileTrees ==
    { ScanTree((<<DirA, NameJustfile>> :> <<JustImportLib>>)
                 @@ (<<DirA, <<"x", ".", "j", "u", "s", "t">>>> :> <<JustImportMissing>>)
                 @@ (<<DirJ, <<"b", ".", "j", "u", "s", "t">>>> :> <<>>),
               NoYamls, unreadable) :
        unreadable \in { { <<DirA, NameJustfile>> }, { <<DirA, <<"x", ".", "j", "u", "s", "t">>>> } } }

MakeInclude == <<"i", "n", "c", "l", "u", "d", "e", " ", ".", ".", "/", "c", "/", "x", ".", "m", "k", " ", "$", "(", "V", ")", "/", "y", ".", "m", "k", " ", ".", ".", "/", "c", "/", "z", ".", "m", "k">>
MakeIncludeVariable == <<"i", "n", "c", "l", "u", "d", "e", " ", "$", "(", "V", ")">>
MakeRule == <<"a", "l", "l", ":", " ", "i", "n", "c", "l", "u", "d", "e">>

\* the service m with its Makefile, which holds line on line n
MakefileTrees ==
    { ScanTree((<<DirM, NameMakefile>> :> Padded(n, line))
                 @@ (<<<<"c">>, <<"x", ".", "m", "k">>>> :> <<>>),
               NoYamls, {}) :
        n \in {1, SCAN_MAX_LINES, SCAN_MAX_LINES + 1},
        line \in { MakeInclude, MakeIncludeVariable, MakeRule } }

GoImport == <<"i", "m", "p", "o", "r", "t", " ", "\"", "m", ".", "i", "o", "/", "c", "\"">>
GoImportOther == <<"i", "m", "p", "o", "r", "t", " ", "\"", "n", ".", "i", "o", "/", "c", "\"">>
GoBlock == << <<"i", "m", "p", "o", "r", "t", " ", "(">>, <<" ", " ", "\"", "m", ".", "i", "o", "/", "/", "c", "/", "\"">>, <<" ", " ", "\"", "f", "m", "t", "\"">>, <<")">>, <<" ", " ", "\"", "m", ".", "i", "o", "/", "a", "b", "\"">> >>

\* the service a with go.mod and x.go, which holds lines
GoTrees ==
    { ScanTree((<<DirA, NameDepsfile>> :> <<>>)
                 @@ (<<DirA, NameGoMod>> :> <<>>)
                 @@ (<<DirA, <<"x", ".", "g", "o">>>> :> lines),
               NoYamls, unreadable) :
        lines \in { Padded(n, GoImport) : n \in {1, SCAN_MAX_LINES, SCAN_MAX_LINES + 1} }
                    \cup { <<GoImportOther>>, GoBlock, <<GoImport, GoImport>> \o GoBlock },
        unreadable \in { {}, { <<DirA, <<"x", ".", "g", "o">>>> } } }

\* the service a with kustomization.yaml, which lists ../k/p, and with
\* s/kustomization.yaml, which lists ../../k/q; either may be unreadable
TwoKustomizationTrees ==
    { ScanTree((<<DirA, NameDepsfile>> :> <<>>)
                 @@ (<<DirK, <<"p">>>> :> <<>>) @@ (<<DirK, <<"q">>>> :> <<>>),
               (<<DirA, NameKustomizationYaml>> :>
                    KustomizeDocument("resources", << <<".", ".", "/", "k", "/", "p">> >>))
                 @@ (<<DirA, DirS, NameKustomizationYaml>> :>
                    KustomizeDocument("resources", << <<".", ".", "/", ".", ".", "/", "k", "/", "q">> >>)),
               unreadable) :
        unreadable \in { {}, { <<DirA, NameKustomizationYaml>> },
                         { <<DirA, DirS, NameKustomizationYaml>> } } }

\* what the kustomization of the service a may list: the directories ../k
\* and ../n, in either order, or one of them
DiamondReferences ==
    { << <<".", ".", "/", "k">>, <<".", ".", "/", "n">> >>, << <<".", ".", "/", "n">>, <<".", ".", "/", "k">> >>, << <<".", ".", "/", "k">> >>, << <<".", ".", "/", "n">> >> }

\* the service a, whose kustomization lists top; k, whose kustomization
\* lists left; n, whose kustomization lists right.  k holds the file p and
\* n the file q
DiamondTrees ==
    { ScanTree((<<DirA, NameDepsfile>> :> <<>>)
                 @@ (<<DirK, <<"p">>>> :> <<>>) @@ (<<DirN, <<"q">>>> :> <<>>),
               (<<DirA, NameKustomizationYaml>> :> KustomizeDocument("resources", top))
                 @@ (<<DirK, NameKustomizationYaml>> :> KustomizeDocument(key, left))
                 @@ (<<DirN, NameKustomizationYaml>> :> KustomizeDocument("resources", right)),
               {}) :
        top \in DiamondReferences,
        key \in {"resources", "components"},
        left \in { <<>>, << <<"p">> >>, << <<".", ".", "/", "n">> >>, << <<"p">>, <<".", ".", "/", "n">> >> },
        right \in { <<>>, << <<"q">> >>, << <<".", ".", "/", "k">> >> } }

ScanTrees ==
    ProtoTrees \cup JustfileTrees \cup TwoJustfileTrees \cup MakefileTrees \cup GoTrees
        \cup TwoKustomizationTrees \cup DiamondTrees

\* a run of main::dependencies on one of these repositories, justfiles and
\* Makefiles opted in as markers
ScanInit ==
    /\ tree \in ScanTrees
    /\ supported_roots = {"Justfile", "Makefile"}
    /\ changed_files = << <<"k", "/", "p">> >>
    /\ global_dependencies = <<>>
    /\ StartOfRun

ScanSpec == ScanInit /\ [][DiscoverNext]_vars

(***************************************************************************)
(* Runs of resolve on glob patterns                                        *)
(***************************************************************************)
\* dependency strings with wildcards, as a marker or the configuration may
\* hold them
GlobPatterns == { <<"a", "/", "*", "/", "c">>, <<"a", "/", "*", "*", "/", "c">>, <<"a", "/", "?", "?", "h">>, <<"a", "/", "*", ".", "c">> }

\* lines of standard input for them
GlobPaths == { <<"a", "/", "x", "/", "c">>, <<"a", "/", "x", "/", "y", "/", "c">>, <<"a", "/", "x", "\\", "y", "/", "c">>, <<"a", "/", ".", "x", "h">>, <<"a", "/", ".", "h">>, <<"a", "/", "b", ".", "c">>, <<"a", "/", "b", "x", "c">> }

\* the service in directory s that declares the dependency string dep
GlobService(dep) ==
    [path              |-> service_location(<<"s">>),
     dependencies      |-> { DepPattern_new(dep, Root) },
     auto_dependencies |-> {},
     trigger           |-> None]

\* resolve called with one service that declares a glob, with no or one
\* global glob in the configuration
GlobInit ==
    /\ \E dep \in GlobPatterns :
           service_map = (service_location(<<"s">>).canonicalized :> GlobService(dep))
    /\ changed_files \in BoundedSeqs(GlobPaths, MaxChanged) \ {<<>>}
    /\ global_dependencies \in {<<>>} \cup { <<g>> : g \in GlobPatterns }
    /\ canon_changed_files = <<>>
    /\ updated = <<>>
    /\ idx = 1
    /\ passes = 0
    /\ pc = "global"
    /\ result = Running
    /\ NoDiscovery

GlobSpec == GlobInit /\ [][Next]_vars

\* resolve called on the service directories of the scenarios without any
\* global dependency in the configuration
NoGlobalInit ==
    /\ \E dirs \in SUBSET ServiceDirs :
       \E entries \in BoundedSubsets({ e \in DepEntries(dirs) : DiscoverableEntry(e) }, MaxDeps) :
           service_map = MkServiceMap(dirs, entries)
    /\ changed_files \in BoundedSeqs(ChangedUniverse, MaxChanged)
    /\ global_dependencies = <<>>
    /\ canon_changed_files = <<>>
    /\ updated = <<>>
    /\ idx = 1
    /\ passes = 0
    /\ pc = "global"
    /\ result = Running
    /\ NoDiscovery

NoGlobalSpec == NoGlobalInit /\ [][Next]_vars

(***************************************************************************)
(* Properties of dependency::resolve                                       *)
(***************************************************************************)
\* the canonical path of each line standard input may hold
CanonTable == [file \in ChangedUniverse |-> PathInfo_new(file, Root).canonicalized]
Canon(file) == CanonTable[file]

\* the compiled patterns of each value of config.global_dependencies
GlobalTable ==
    [globals \in GlobalUniverse |->
        { DepPattern_new(globals[i], Root) : i \in 1..Len(globals) }]
GlobalSet == GlobalTable[global_dependencies]

\* some global pattern of the configuration matches some changed file
GlobalHit ==
    \E g \in GlobalSet : \E j \in 1..Len(changed_files) :
        is_match(g, Canon(changed_files[j]))

\* resolve has returned Ok
Finished == pc = "done" /\ result.status = "ok"

ReturnedPaths == { s.path.canonicalized : s \in result.services }

KindOf(p) == service_map[p].trigger.kind

\* C1: when a global pattern matches a changed file, resolve returns every
\* input service, each with trigger GlobalDependency; when none matches, no
\* returned service has trigger GlobalDependency
C1_GlobalDependency ==
    Finished =>
        IF GlobalHit
        THEN /\ ReturnedPaths = DOMAIN service_map
             /\ \A s \in result.services : s.trigger.kind = "GlobalDependency"
        ELSE \A s \in result.services : s.trigger.kind # "GlobalDependency"

\* a run with a global match on one of two changed files and two services
C1_Witness ==
    /\ Finished
    /\ GlobalHit
    /\ Cardinality(result.services) >= 2
    /\ \E j \in 1..Len(changed_files) : \A i \in 1..Len(global_dependencies) :
           ~ is_match(DepPattern_new(global_dependencies[i], Root), Canon(changed_files[j]))

\* C2: the list resolve returns is exactly the set of services whose trigger
\* was set: every returned service has a trigger and no triggered service is
\* missing
C2_ResultIsTriggered ==
    Finished =>
        /\ \A s \in result.services : s.trigger.kind # "None"
        /\ \A s \in result.services :
               /\ s.path.canonicalized \in DOMAIN service_map
               /\ s = service_map[s.path.canonicalized]
        /\ \A p \in DOMAIN service_map : KindOf(p) # "None" => service_map[p] \in result.services

\* a run without global match that returns some services and leaves one out
C2_Witness ==
    /\ Finished
    /\ ~ GlobalHit
    /\ result.services # {}
    /\ \E p \in DOMAIN service_map : KindOf(p) = "None"

\* C3: once the trigger of a service is set, no later step of resolve clears
\* it or replaces it by a different cause
C3_TriggerSetOnce ==
    [][\A p \in DOMAIN service_map :
          KindOf(p) # "None" => service_map'[p].trigger = service_map[p].trigger]_vars

\* a run in which a service triggered by a file change also has a pattern
\* that matches a changed file, and the later passes have run
C3_Witness ==
    /\ Finished
    /\ passes >= 1
    /\ \E p \in DOMAIN service_map :
           /\ KindOf(p) = "FileChange"
           /\ service_has_dependency(service_map[p], canon_changed_files).found

\* the canonical path dir is a proper ancestor directory of the canonical
\* path file: file continues dir with a separator
IsBelow(file, dir) == StartsWith(file, dir \o <<SEP>>)

\* the known services that are ancestor directories of the canonical path
AncestorServices(canonical) == { p \in DOMAIN service_map : IsBelow(canonical, p) }

\* the closest of them
OwnerOf(canonical) ==
    LET ancestors == AncestorServices(canonical) IN
    CHOOSE p \in ancestors : \A q \in ancestors : Len(q) <= Len(p)

ChangedIdx == 1..Len(changed_files)

\* service p is the closest ancestor service of some changed file
Owns(p) ==
    \E j \in ChangedIdx :
        /\ IsBelow(Canon(changed_files[j]), p)
        /\ OwnerOf(Canon(changed_files[j])) = p

DeclaredMatch(p, path) == \E dep \in service_map[p].dependencies : is_match(dep, path)
AutoMatch(p, path) == \E dep \in service_map[p].auto_dependencies : is_match(dep, path)
AnyMatch(p, path) == DeclaredMatch(p, path) \/ AutoMatch(p, path)

MatchingIdx(p) == { j \in ChangedIdx : AnyMatch(p, Canon(changed_files[j])) }
FirstMatchingIdx(p) ==
    LET matching == MatchingIdx(p) IN
    CHOOSE j \in matching : \A k \in matching : j <= k

\* C4: without a global match, every changed file below a known service makes
\* resolve return an ancestor service of that file with trigger FileChange,
\* and every service with FileChange lies below the root and above a changed
\* file
C4_FileChangeAttribution ==
    (Finished /\ ~ GlobalHit) =>
        /\ \A j \in ChangedIdx :
               AncestorServices(Canon(changed_files[j])) # {} =>
                   \E s \in result.services :
                       /\ s.trigger.kind = "FileChange"
                       /\ IsBelow(Canon(changed_files[j]), s.path.canonicalized)
        /\ \A s \in result.services :
               s.trigger.kind = "FileChange" =>
                   /\ IsBelow(s.path.canonicalized, Root)
                   /\ \E j \in ChangedIdx :
                          IsBelow(Canon(changed_files[j]), s.path.canonicalized)

\* a run with a changed file two levels below its only ancestor service and
\* a changed file outside the root
C4_Witness ==
    /\ Finished
    /\ ~ GlobalHit
    /\ \E j \in ChangedIdx :
           /\ AncestorServices(Canon(changed_files[j])) # {}
           /\ Parent(Canon(changed_files[j])) \notin DOMAIN service_map
    /\ \E j \in ChangedIdx : ~ IsBelow(Canon(changed_files[j]), Root)

\* C5: after the direct-dependency phase a service without FileChange has
\* Dependency(source, auto) exactly when some changed file matches one of
\* its patterns; source is the first matching changed file in input order,
\* auto is false when that file matches a declared pattern
C5_DirectDependency ==
    (pc = "peer" /\ passes = 0) =>
        \A p \in DOMAIN service_map :
            KindOf(p) # "FileChange" =>
                /\ KindOf(p) \in {"None", "Dependency"}
                /\ KindOf(p) = "Dependency" <=> MatchingIdx(p) # {}
                /\ KindOf(p) = "Dependency" =>
                       LET first == FirstMatchingIdx(p) IN
                       /\ service_map[p].trigger.source = changed_files[first]
                       /\ service_map[p].trigger.auto =
                              ~ DeclaredMatch(p, Canon(changed_files[first]))

\* the second changed file is the first that matches, and it matches both a
\* declared and an auto-discovered pattern of the service
C5_Witness ==
    /\ pc = "peer"
    /\ passes = 0
    /\ \E p \in DOMAIN service_map :
           /\ KindOf(p) = "Dependency"
           /\ FirstMatchingIdx(p) = 2
           /\ DeclaredMatch(p, Canon(changed_files[2]))
           /\ AutoMatch(p, Canon(changed_files[2]))

\* C6: without a global match the result is closed under peer propagation:
\* no service without trigger has a pattern that matches the directory of a
\* service with a trigger
C6_PeerClosure ==
    (Finished /\ ~ GlobalHit) =>
        \A p, q \in DOMAIN service_map :
            (KindOf(p) = "None" /\ KindOf(q) # "None") => ~ AnyMatch(p, q)

\* the chain: f owns the changed file, e depends on f, a depends on e
C6_Witness ==
    /\ Finished
    /\ \E f, e, a \in DOMAIN service_map :
           /\ KindOf(f) = "FileChange"
           /\ KindOf(e) = "Dependency"
           /\ AnyMatch(e, f)
           /\ \E j \in ChangedIdx :
                  /\ IsBelow(Canon(changed_files[j]), f)
                  /\ service_map[e].trigger.source = changed_files[j]
           /\ KindOf(a) = "PeerDependency"
           /\ service_map[a].trigger.source = service_map[e].path.display_path
           /\ AnyMatch(a, e)

\* two services that depend on each other
Cyclic ==
    \E p, q \in DOMAIN service_map : p # q /\ AnyMatch(p, q) /\ AnyMatch(q, p)

\* C7: resolve terminates, also on cyclic services: every peer pass that does
\* not end the loop sets the trigger of a service that had none, and the
\* number of passes is at most the number of services plus one
C7_Terminates ==
    /\ <>(pc = "done")
    /\ [](passes <= Cardinality(DOMAIN service_map) + 1)
    /\ [][(pc = "peer" /\ pc' = "peer") =>
              \E p \in DOMAIN service_map :
                  KindOf(p) = "None" /\ service_map'[p].trigger.kind # "None"]_vars

\* a finished run on two services that depend on each other, one of them
\* triggered by a peer pass
C7_Witness ==
    /\ Finished
    /\ Cyclic
    /\ passes >= 2
    /\ \E p \in DOMAIN service_map : KindOf(p) = "PeerDependency"

\* C8: the earliest phase that can attribute a cause wins: the owner of a
\* changed file ends with FileChange, a service that owns none but matches a
\* changed file ends with Dependency, and PeerDependency is left for the
\* services that neither own nor match a changed file
C8_EarliestCause ==
    (Finished /\ ~ GlobalHit) =>
        \A p \in DOMAIN service_map :
            LET owns == Owns(p)
                matches == MatchingIdx(p) # {}
            IN /\ owns => KindOf(p) = "FileChange"
               /\ (~ owns /\ matches) => KindOf(p) = "Dependency"
               /\ KindOf(p) = "PeerDependency" => (~ owns /\ ~ matches)

\* an owner of a changed file that also matches a changed file, and a
\* service with Dependency one of whose patterns matches a triggered service
C8_Witness ==
    /\ Finished
    /\ ~ GlobalHit
    /\ \E p \in DOMAIN service_map : Owns(p) /\ MatchingIdx(p) # {}
    /\ \E p, q \in DOMAIN service_map :
           /\ p # q
           /\ KindOf(p) = "Dependency"
           /\ KindOf(q) # "None"
           /\ AnyMatch(p, q)

\* the inputs of the run as sets, without their order
ChangedSet == { Canon(changed_files[j]) : j \in ChangedIdx }

ExpectGlobal == \E g \in GlobalSet : \E f \in ChangedSet : is_match(g, f)
ExpectFileChange ==
    { OwnerOf(f) : f \in { g \in ChangedSet : AncestorServices(g) # {} } }

\* the least set above T that is closed under "has a pattern matching the
\* directory of a member"
RECURSIVE PeerClosureOf(_)
PeerClosureOf(T) ==
    LET new == { p \in DOMAIN service_map \ T : \E q \in T : AnyMatch(p, q) } IN
    IF new = {} THEN T ELSE PeerClosureOf(T \cup new)

\* the cause class of service p as a function of the set of services and the
\* set of changed files
ExpectedKinds ==
    LET global == ExpectGlobal
        owners == ExpectFileChange
        direct == { p \in DOMAIN service_map \ owners :
                      \E f \in ChangedSet : AnyMatch(p, f) }
        closed == PeerClosureOf(owners \cup direct)
    IN [p \in DOMAIN service_map |->
          IF global THEN "GlobalDependency"
          ELSE IF p \in owners THEN "FileChange"
          ELSE IF p \in direct THEN "Dependency"
          ELSE IF p \in closed THEN "PeerDependency"
          ELSE "None"]

\* C9: the services resolve returns and the cause class of each are
\* determined by the set of services and the set of changed files, whatever
\* the order of the changed-file list and the iteration order over the
\* services
C9_OrderIndependent ==
    Finished =>
        LET expected == ExpectedKinds IN
        /\ \A p \in DOMAIN service_map : KindOf(p) = expected[p]
        /\ ReturnedPaths = { p \in DOMAIN service_map : expected[p] # "None" }

\* two different changed files with different owners, and a third service
\* that matches both of them
C9_Witness ==
    /\ Finished
    /\ ~ GlobalHit
    /\ Len(changed_files) = 2
    /\ changed_files[1] # changed_files[2]
    /\ Cardinality({ p \in DOMAIN service_map : KindOf(p) = "FileChange" }) = 2
    /\ \E p \in DOMAIN service_map :
           KindOf(p) = "Dependency" /\ MatchingIdx(p) = {1, 2}

\* C10: a changed file without owning ancestor service is ignored by
\* file-change attribution: its step sets no trigger and raises no error, and
\* the services with FileChange are the owners of the other changed files
C10_UnownedFileIgnored ==
    /\ [][(pc = "files" /\ AncestorServices(canon_changed_files[idx].canonicalized) = {}) =>
              (service_map' = service_map /\ result'.status # "err")]_vars
    /\ []((pc = "done" /\ ~ GlobalHit) =>
              /\ result.status = "ok"
              /\ { p \in DOMAIN service_map : KindOf(p) = "FileChange" } = ExpectFileChange)

\* a finished run whose first changed file has no owner and whose second
\* changed file has one
C10_Witness ==
    /\ Finished
    /\ ~ GlobalHit
    /\ Len(changed_files) = 2
    /\ AncestorServices(Canon(changed_files[1])) = {}
    /\ AncestorServices(Canon(changed_files[2])) # {}
    /\ KindOf(OwnerOf(Canon(changed_files[2]))) = "FileChange"

(***************************************************************************)
(* Properties of Service::discover                                         *)
(***************************************************************************)
\* the services discover has collected so far, or returned
DiscoveredServices == { discovered.services[i] : i \in DOMAIN discovered.services }
DiscoveredPaths == { s.path.canonicalized : s \in DiscoveredServices }

\* discover has returned Ok
DiscoverReturned == discovered.status = "ok"

\* the marker files of the tree that lie directly in directory dir, with the
\* kind map_depsfile gives each when every kind is supported
MarkersIn(dir) ==
    { name \in MarkerNames : <<name>> \in { SubSeq(f, Len(dir) + 1, Len(f)) :
                                 f \in { g \in tree.files : Len(g) = Len(dir) + 1
                                                            /\ SubSeq(g, 1, Len(dir)) = dir } } }

KindOfMarker(name) == map_depsfile(name, DepsfileTypes)

\* C11: discover never collects or returns a service whose canonical path is
\* the repository root, whichever marker lies directly in the root, and so
\* no service resolve returns has the root as its canonical path
C11_NoRootService ==
    /\ Root \notin DOMAIN contexts
    /\ Root \notin DiscoveredPaths
    /\ Root \notin DOMAIN service_map
    /\ \A s \in result.services : s.path.canonicalized # Root

\* a supported marker lies in the root, discover returned other services and
\* resolve returned some of them
C11_Witness ==
    /\ \E name \in MarkersIn(<<>>) : is_supported(supported_roots, KindOfMarker(name))
    /\ DiscoverReturned
    /\ pc = "done"
    /\ result.status = "ok"
    /\ result.services # {}

\* the supported markers directly in directory dir, and the one of highest
\* precedence among them
SupportedMarkersIn(dir) ==
    { name \in MarkersIn(dir) : is_supported(supported_roots, KindOfMarker(name)) }

BestMarker(dir) ==
    CHOOSE name \in SupportedMarkersIn(dir) :
        \A other \in SupportedMarkersIn(dir) :
            DepsfileTypeRank(KindOfMarker(name)) <= DepsfileTypeRank(KindOfMarker(other))

\* the directories the walk reaches, the target directory excluded
VisibleDirs == walk_directories(tree) \ {<<>>}

\* the declared dependencies the document of marker name in dir gives
DeclaredBy(dir, name) ==
    IF name \in {NameJustfile, NameMakefile} THEN <<>>
    ELSE LET doc == tree.depsfiles[Append(dir, name)].dependencies IN
         [i \in DOMAIN doc |-> DepPattern_new(doc[i], Root)]

\* C12: a directory with several supported markers yields exactly one
\* service, loaded from the marker of highest precedence (Depsfile, then
\* Buildfile, then Justfile, then Makefile), in whatever order the walk meets
\* the markers: the context of the directory names that marker, no two
\* collected services share a path, the declared dependencies of the service
\* are those of that marker, and discover returns the directory once
C12_MergePrecedence ==
    /\ \A key \in DOMAIN contexts :
          LET dir == EntryOf(key) IN
          /\ contexts[key].filetype = KindOfMarker(BestMarker(dir))
          /\ contexts[key].depsfile_location.canonicalized =
                 EntryPath(Append(dir, BestMarker(dir)))
    /\ \A i, j \in DOMAIN discovered.services :
          discovered.services[i].path = discovered.services[j].path => i = j
    /\ \A s \in DiscoveredServices :
          LET dir == EntryOf(s.path.canonicalized) IN
          s.depsfile.dependencies = DeclaredBy(dir, BestMarker(dir))
    /\ DiscoverReturned =>
          \A dir \in VisibleDirs :
             Cardinality(SupportedMarkersIn(dir)) >= 2 => EntryPath(dir) \in DiscoveredPaths

\* a holds a justfile and a Depsfile, justfile is opted in, and discover
\* returned the service of a with the dependencies of the Depsfile
C12_Witness ==
    /\ {NameJustfile, NameDepsfile} \subseteq MarkersIn(<<DirA>>)
    /\ "Justfile" \in supported_roots
    /\ DiscoverReturned
    /\ \E s \in DiscoveredServices :
          /\ s.path.canonicalized = EntryPath(<<DirA>>)
          /\ s.depsfile.dependencies = DeclaredBy(<<DirA>>, NameDepsfile)
          /\ s.depsfile.dependencies # <<>>

\* directory dir is a service root for discover: it has a context, or its
\* service is collected
Classified(dir) == EntryPath(dir) \in DOMAIN contexts \cup DiscoveredPaths

\* C13: unless discover fails, a directory the walk has visited whose only
\* marker is a justfile is a service exactly if Justfile is in
\* supported_roots, one whose only marker is a Makefile exactly if Makefile
\* is, and one that holds a Depsfile for every value of supported_roots
C13_OptIn ==
    discovered.status # "err" =>
        \A dir \in VisibleDirs \ walk :
            /\ MarkersIn(dir) = {NameJustfile} =>
                   (Classified(dir) <=> "Justfile" \in supported_roots)
            /\ MarkersIn(dir) = {NameMakefile} =>
                   (Classified(dir) <=> "Makefile" \in supported_roots)
            /\ NameDepsfile \in MarkersIn(dir) => Classified(dir)

\* a holds only a justfile and justfile is opted in, ab holds only a Makefile
\* and Makefile is not: discover returned a and not ab
C13_Witness ==
    /\ MarkersIn(<<DirA>>) = {NameJustfile}
    /\ MarkersIn(<<DirAB>>) = {NameMakefile}
    /\ supported_roots = {"Justfile"}
    /\ DiscoverReturned
    /\ DiscoveredPaths = {EntryPath(<<DirA>>)}

\* C14 as stated: a directory the walk has visited whose only marker is
\* Buildfile.yaml is a service root whatever supported_roots holds, also
\* when it is empty
C14_BuildfileWithoutOptIn ==
    discovered.status # "err" =>
        \A dir \in VisibleDirs \ walk :
            MarkersIn(dir) = {NameBuildfile} => Classified(dir)

\* C14: unless discover fails, a directory the walk has visited whose only
\* marker is Buildfile.yaml is a service root exactly if Buildfile is in
\* supported_roots: of the four kinds only Depsfile needs no opt-in
C14_BuildfileOptIn ==
    discovered.status # "err" =>
        \A dir \in VisibleDirs \ walk :
            MarkersIn(dir) = {NameBuildfile} =>
                (Classified(dir) <=> "Buildfile" \in supported_roots)

\* a holds only a Buildfile.yaml, Buildfile is opted in and discover returned
\* the service of a with the dependencies of the Buildfile
C14_Witness ==
    /\ MarkersIn(<<DirA>>) = {NameBuildfile}
    /\ "Buildfile" \in supported_roots
    /\ DiscoverReturned
    /\ \E s \in DiscoveredServices :
          /\ s.path.canonicalized = EntryPath(<<DirA>>)
          /\ s.depsfile.dependencies = DeclaredBy(<<DirA>>, NameBuildfile)

\* the directories discover makes services of, and those among them whose
\* marker cannot be loaded (it is malformed, or gone since the walk)
ServiceDirsOf == { dir \in VisibleDirs : SupportedMarkersIn(dir) # {} }
FailingDirs == { dir \in ServiceDirsOf : Append(dir, BestMarker(dir)) \in tree.unreadable }

\* C15: if the marker of one discovered service fails to load, discover
\* never returns Ok, the failing directory never becomes a service, resolve
\* is never called, and the run ends with the error and with none of the
\* services collected before it
C15_LoadFailureIsFatal ==
    /\ FailingDirs # {} =>
          /\ ~ DiscoverReturned
          /\ \A dir \in FailingDirs : EntryPath(dir) \notin DiscoveredPaths
          /\ service_map = <<>>
          /\ result.status # "ok"
          /\ pc = "done" => discovered = DiscoverErr
    /\ discovered.status = "err" =>
          /\ FailingDirs # {}
          /\ discovered.services = <<>>
          /\ result = Err

\* two directories are services, the marker of one cannot be loaded, and
\* discover has returned the error
C15_Witness ==
    /\ Cardinality(ServiceDirsOf) = 2
    /\ Cardinality(FailingDirs) = 1
    /\ discovered = DiscoverErr
    /\ pc = "done"

\* what the analyzers of the languages report for a service, in the order
\* of the languages, before discover_service filters it
ReportedBy(language) ==
    IF language = "Kustomize" \/ ~ tree.analysis[language].ok THEN <<>>
    ELSE [i \in DOMAIN tree.analysis[language].deps |->
             DepPattern_new(tree.analysis[language].deps[i], Root)]

RECURSIVE Reported(_)
Reported(languages) ==
    IF languages = <<>> THEN <<>>
    ELSE ReportedBy(Head(languages)) \o Reported(Tail(languages))

\* the patterns of the final auto_dependencies of a service
FinalPatterns(s) == [i \in DOMAIN s.auto_dependencies |-> s.auto_dependencies[i].pattern]

IsGlob(p) == p.pattern # NoRegex

\* C16: in the final auto_dependencies of every discovered service no two
\* literal patterns have the same canonical path, whichever analyzers
\* reported them and in whichever order, and the glob patterns the analyzers
\* reported are all still there, as often and in the order reported
C16_UniqueLiterals ==
    \A s \in DiscoveredServices :
        LET final == FinalPatterns(s)
            found == Reported(s.depsfile.languages)
        IN /\ \A i, j \in DOMAIN final :
                 (/\ ~ IsGlob(final[i])
                  /\ ~ IsGlob(final[j])
                  /\ final[i].raw.canonicalized = final[j].raw.canonicalized) => i = j
           /\ SelectSeq(final, IsGlob) = SelectSeq(found, IsGlob)

\* the analyzers reported two spellings of one path and a glob: the
\* service keeps one literal and the glob
C16_Witness ==
    \E s \in DiscoveredServices :
        LET final == FinalPatterns(s)
            found == Reported(s.depsfile.languages)
        IN /\ Len(found) = 3
           /\ \E i, j \in DOMAIN found :
                 /\ i # j
                 /\ ~ IsGlob(found[i])
                 /\ ~ IsGlob(found[j])
                 /\ found[i].raw.display_path # found[j].raw.display_path
                 /\ found[i].raw.canonicalized = found[j].raw.canonicalized
           /\ \E i \in DOMAIN found : IsGlob(found[i])
           /\ Len(final) = 2
           /\ DiscoverReturned

\* C17: the final auto_dependencies of every discovered service hold no
\* literal pattern whose canonical path is the service directory or lies
\* inside it; is_child_of is false for every glob pattern the analyzers
\* reported, and each of them is in the final list
C17_NoneWithinService ==
    \A s \in DiscoveredServices :
        LET final == FinalPatterns(s)
            found == Reported(s.depsfile.languages)
            dir == s.path.canonicalized
        IN /\ \A i \in DOMAIN final :
                 ~ IsGlob(final[i]) =>
                     /\ final[i].raw.canonicalized # dir
                     /\ ~ IsBelow(final[i].raw.canonicalized, dir)
           /\ \A i \in DOMAIN found :
                 IsGlob(found[i]) =>
                     /\ ~ is_child_of(found[i], dir)
                     /\ \E j \in DOMAIN final : final[j] = found[i]

\* the analyzers reported a/x, the service directory a and the glob a/*:
\* the service keeps the glob alone
C17_Witness ==
    \E s \in DiscoveredServices :
        LET final == FinalPatterns(s)
            found == Reported(s.depsfile.languages)
            dir == s.path.canonicalized
        IN /\ \E i \in DOMAIN found : found[i].raw.canonicalized = dir /\ ~ IsGlob(found[i])
           /\ \E i \in DOMAIN found :
                 IsBelow(found[i].raw.canonicalized, dir) /\ ~ IsGlob(found[i])
           /\ \E i \in DOMAIN found :
                 IsBelow(found[i].raw.canonicalized, dir) /\ IsGlob(found[i])
           /\ Len(final) = 1
           /\ IsGlob(final[1])
           /\ DiscoverReturned

\* the languages the marker discover chose for directory dir declares
DeclaredIn(dir) ==
    IF BestMarker(dir) \in {NameJustfile, NameMakefile} THEN <<>>
    ELSE tree.depsfiles[Append(dir, BestMarker(dir))].languages

\* the files below directory dir with no hidden component below dir
VisibleFilesBelow(dir) ==
    { f \in tree.files :
        /\ Len(f) > Len(dir)
        /\ SubSeq(f, 1, Len(dir)) = dir
        /\ \A i \in (Len(dir) + 1)..Len(f) : f[i][1] # "." /\ f[i] # NameNodeModules }

\* the summed scores of the files these repositories hold: 1 for a .go
\* file and 5 for go.mod, 3 for a .proto file
ExpectedScore(dir, language) ==
    LET files == VisibleFilesBelow(dir)
        named(suffix) == Cardinality({ f \in files : EndsWith(f[Len(f)], suffix) })
    IN CASE language = "Golang" ->
                named(<<".", "g", "o">>) + 5 * Cardinality({ f \in files : f[Len(f)] = NameGoMod })
         [] language = "Protobuf" -> 3 * named(<<".", "p", "r", "o", "t", "o">>)
         [] OTHER -> 0

\* C18: a service whose marker declares a language keeps the declared list
\* as it is; a service whose marker declares none gets each language once,
\* and exactly the languages for which the scores of the non-hidden files
\* in its directory sum to at least 3
C18_LanguageInference ==
    \A s \in DiscoveredServices :
        LET dir == EntryOf(s.path.canonicalized)
            languages == s.depsfile.languages
        IN IF DeclaredIn(dir) # <<>>
           THEN languages = DeclaredIn(dir)
           ELSE /\ { languages[i] : i \in DOMAIN languages } =
                      { language \in Languages : ExpectedScore(dir, language) >= 3 }
                /\ \A i, j \in DOMAIN languages : languages[i] = languages[j] => i = j

\* a holds two .go files and one .proto file and declares no language:
\* Protobuf is inferred and Go is not
C18_Witness ==
    /\ DeclaredIn(<<DirA>>) = <<>>
    /\ ExpectedScore(<<DirA>>, "Golang") = 2
    /\ ExpectedScore(<<DirA>>, "Protobuf") = 3
    /\ DiscoverReturned
    /\ \E s \in DiscoveredServices : s.depsfile.languages = <<"Protobuf">>

(***************************************************************************)
(* Properties of the Kustomize analyzer                                    *)
(***************************************************************************)
\* the references a kustomization lists under its five keys
ReferencesOf(doc) ==
    UNION { { doc[key][i] : i \in DOMAIN doc[key] } :
              key \in {"resources", "bases", "components", "patches", "configMapGenerator"} }

\* the references of the kustomization of the service a, and of the
\* kustomization of directory k (none if k has no kustomization file)
ServiceRefs == ReferencesOf(tree.kustomizations[<<DirA, NameKustomizationYaml>>])
BaseRefs ==
    IF <<DirK, NameKustomizationYaml>> \in tree.files
    THEN ReferencesOf(tree.kustomizations[<<DirK, NameKustomizationYaml>>])
    ELSE IF <<DirK, NameKustomizationYml>> \in tree.files
         THEN ReferencesOf(tree.kustomizations[<<DirK, NameKustomizationYml>>])
    ELSE {}

RefToK == <<".", ".", "/", "k">>
RefToA == <<".", ".", "/", "a">>

\* the kustomization of a reaches itself again: directly, or through k
KustomizeCycle ==
    \/ RefToA \in ServiceRefs
    \/ RefToK \in ServiceRefs /\ RefToA \in BaseRefs

\* the canonical paths of the files that exist among the references refs of
\* a kustomization in directory dir
FilesAmong(dir, refs) ==
    { canonicalize(PathJoin(EntryPath(dir), ref)) :
        ref \in { r \in refs : path_is_file(tree, PathJoin(EntryPath(dir), r)) } }

\* the files reachable from the kustomization of a: those it references and,
\* if it references k, those the kustomization of k references
ReachableFiles ==
    FilesAmong(<<DirA>>, ServiceRefs)
        \cup (IF RefToK \in ServiceRefs THEN FilesAmong(<<DirK>>, BaseRefs) ELSE {})

\* what the Kustomize analyzer returns for the service a
KustomizeOutput ==
    KustomizeAnalyzer_dependencies(tree, EntryPath(<<DirA>>),
        << <<DirA, NameKustomizationYaml>> >>, KustomizeOk(<<>>, {}))

\* the auto-dependencies of service s that language reported
AutoOf(s, language) ==
    SelectSeq(s.auto_dependencies, LAMBDA d : d.language = language)

GolangFinds == << AutoDependency("Golang", DepPattern_new(<<"c">>, Root)) >>

\* C19: when the kustomizations of a service reference each other in a
\* cycle the Kustomize analyzer returns the error "cyclic dependency", and
\* discover does not fail: the service is collected and returned with the
\* auto-dependencies of Go and none of Kustomize
C19_CycleIsNotFatal ==
    KustomizeCycle =>
        /\ KustomizeOutput.err = "cyclic dependency"
        /\ discovered.status # "err"
        /\ \A s \in DiscoveredServices : s.auto_dependencies = GolangFinds
        /\ DiscoverReturned => EntryPath(<<DirA>>) \in DiscoveredPaths
        /\ pc = "done" => DiscoverReturned /\ result.status = "ok"

\* the kustomization of a references k, whose kustomization references a
\* again: discover returned a with what the Go analyzer found, and resolve
\* has run on it
C19_Witness ==
    /\ RefToK \in ServiceRefs
    /\ RefToA \in BaseRefs
    /\ RefToA \notin ServiceRefs
    /\ DiscoverReturned
    /\ \E s \in DiscoveredServices :
          /\ s.path.canonicalized = EntryPath(<<DirA>>)
          /\ AutoOf(s, "Kustomize") = <<>>
          /\ AutoOf(s, "Golang") = GolangFinds
    /\ pc = "done"

AutoPaths(s) ==
    { hash(s.auto_dependencies[i].pattern) : i \in DOMAIN s.auto_dependencies } \ {<<>>}

\* the proto files of the repository as the Protobuf analyzer lists them
KnownProtos ==
    find_all_proto_files(tree,
        CHOOSE order \in Orderings({ e \in non_hidden_files(tree, <<>>) : is_proto(e) }) : TRUE)

\* the proto files that the file at path imports: what the import lines the
\* analyzer reads in it resolve to
ProtoImports(path) ==
    LET found == extract_proto_imports(tree, path, KnownProtos)
    IN { found[i].raw.canonicalized : i \in DOMAIN found }

\* the proto files below the directory of service s
ServiceProtos(s) ==
    { EntryPath(e) : e \in { f \in non_hidden_files(tree, EntryOf(s.path.canonicalized)) :
                               is_proto(f) } }

\* C21: the Protobuf analyzer follows imports transitively: when a proto
\* file of a discovered service imports B and B imports C, both B and C are
\* among the auto-dependencies of the service (unless they lie in the
\* service itself), also when the imports form a cycle
C21_ProtoTransitive ==
    \A s \in DiscoveredServices :
        \A x \in ServiceProtos(s) : \A b \in ProtoImports(x) : \A c \in ProtoImports(b) :
            \A dep \in {b, c} :
                ~ IsBelow(dep, s.path.canonicalized) => dep \in AutoPaths(s)

\* the Makefile in the directory of service s
MakefileOf(s) == PathJoin(s.path.canonicalized, NameMakefile)

\* the canonical paths of the patterns of a list
CanonicalPaths(patterns) == { patterns[i].raw.canonicalized : i \in DOMAIN patterns }

\* C22: for a discovered service whose marker is a Makefile, every token
\* after `include` on a line of that Makefile that holds no $(...) is an
\* auto-dependency of the service (unless it lies in the service itself),
\* and the tokens that hold $(...) give none
C22_MakefileIncludes ==
    \A s \in DiscoveredServices :
        path_is_file(tree, MakefileOf(s)) =>
            LET included ==
                    CanonicalPaths(scanned_references(tree, "Makefile", MakefileOf(s)))
            IN /\ \A dep \in included :
                      ~ StartsWith(dep, s.path.canonicalized) => dep \in AutoPaths(s)
               /\ AutoPaths(s) \subseteq included

(***************************************************************************)
(* Properties of glob patterns                                             *)
(***************************************************************************)
\* The glob vocabulary, read off the dependency string itself: the text
\* glob matches s from position j on, up to some position.  `**` stands for
\* one character or more, `*` for one character or more other than / and \,
\* `?` for one character, any other character for itself
RECURSIVE GlobMatchesAt(_, _, _)
GlobMatchesAt(glob, s, j) ==
    IF glob = <<>> THEN TRUE
    ELSE IF StartsWith(glob, <<"*", "*">>)
         THEN \E k \in (j + 1)..(Len(s) + 1) :
                  GlobMatchesAt(SubSeq(glob, 3, Len(glob)), s, k)
    ELSE IF glob[1] = "*"
         THEN \E k \in (j + 1)..(Len(s) + 1) :
                  /\ \A m \in j..(k - 1) : s[m] \notin {"/", "\\"}
                  /\ GlobMatchesAt(Tail(glob), s, k)
    ELSE IF glob[1] = "?"
         THEN j <= Len(s) /\ GlobMatchesAt(Tail(glob), s, j + 1)
    ELSE j <= Len(s) /\ s[j] = glob[1] /\ GlobMatchesAt(Tail(glob), s, j + 1)

\* the glob matches somewhere in s
GlobFinds(glob, s) == \E j \in 1..(Len(s) + 1) : GlobMatchesAt(glob, s, j)

\* some changed file, in its canonical form, is found by glob
GlobFindsChanged(glob) ==
    \E j \in 1..Len(changed_files) :
        GlobFinds(glob, PathInfo_new(changed_files[j], Root).canonicalized)

\* the glob the only service of a run of GlobSpec declares
DeclaredGlob ==
    CHOOSE dep \in GlobPatterns :
        \A p \in DOMAIN service_map : service_map[p].dependencies = { DepPattern_new(dep, Root) }

ScannedFiles(s, language) ==
    LET dir == EntryOf(s.path.canonicalized) IN
    CASE language = "Justfile" ->
             { EntryPath(e) : e \in { f \in non_hidden_files(tree, dir) :
                 /\ f # <<>>
                 /\ is_file(tree, f)
                 /\ justfile_file_relevant(to_lowercase(file_name(f))) } }
      [] language = "Protobuf" -> ServiceProtos(s)
      [] language = "Golang" -> { EntryPath(e) : e \in go_entries(tree, dir) }
      [] language = "Makefile" ->
             IF path_is_file(tree, MakefileOf(s)) THEN { MakefileOf(s) } ELSE {}

\* the canonical paths that the line, taken by itself, refers to for the
\* scanner of a language
ReferencesOfLine(language, line, path) ==
    CASE language = "Justfile" ->
             CanonicalPaths(justfile_extract_from_line(tree, line, Parent(path)))
      [] language = "Makefile" ->
             CanonicalPaths(makefile_extract_from_line(line, Parent(path)))
      [] language = "Protobuf" ->
             IF StartsWith(line, KwImport)
             THEN CanonicalPaths(proto_extract_from_import(line, KnownProtos))
             ELSE {}
      [] language = "Golang" ->
             IF StartsWith(line, KwImport) /\ ~ StartsWith(line, KwImport \o <<" ", "(">>)
             THEN { DepPattern_new(go_extract_from_line(line, package_prefixes)[i], Root)
                        .raw.canonicalized :
                    i \in DOMAIN go_extract_from_line(line, package_prefixes) }
             ELSE {}

\* the numbers of the lines of the file at path that refer to reference
LinesWith(language, path, reference) ==
    { n \in DOMAIN tree.lines[EntryOf(path)] :
        reference \in ReferencesOfLine(language, tree.lines[EntryOf(path)][n], path) }

\* what the lines of the file at path refer to
ReferencesOfFile(language, path) ==
    UNION { ReferencesOfLine(language, tree.lines[EntryOf(path)][n], path) :
            n \in { k \in DOMAIN tree.lines[EntryOf(path)] :
                      tree.lines[EntryOf(path)][k] # <<>> } }

\* what the scanner of a language reports for service s: its
\* auto-dependencies, and for the Makefile scanner what ReferenceFinder
\* reads in the Makefile
ScannerReports(s, language) ==
    IF language = "Makefile"
    THEN CanonicalPaths(scanned_references(tree, "Makefile", MakefileOf(s)))
    ELSE AutoPaths(s)

\* C24: every scanner of text (Go, Protobuf, justfile, Makefile) considers
\* a reference on line n of a file it scans if and only if n is at most
\* 300: what a readable file of a discovered service refers to outside the
\* service is reported exactly when it stands on one of the first 300 lines
C24_ScanCap ==
    tree.unreadable = {} =>
        \A s \in DiscoveredServices :
            \A language \in {"Golang", "Protobuf", "Justfile", "Makefile"} :
                \A path \in ScannedFiles(s, language) :
                    \A reference \in ReferencesOfFile(language, path) :
                        ~ IsBelow(reference, s.path.canonicalized) =>
                            (reference \in ScannerReports(s, language)
                                <=> \E n \in LinesWith(language, path, reference) : n <= 300)

\* what the Kustomize analyzer extracts from the kustomization file e of
\* service s, taken by itself
KustomizationAlone(s, e) ==
    parse_kustomization(tree, EntryPath(e), s.path.canonicalized, {})

\* C25: when an analyzer fails on one file of a service, discovery does not
\* fail and the dependencies the same analyzer extracts from the other
\* files of the service are still auto-dependencies of the service: what a
\* kustomization or a justfile of a discovered service gives when it is
\* analyzed without error is kept (unless it lies in the service itself)
C25_OtherFilesKept ==
    /\ discovered.status # "err"
    /\ \A s \in DiscoveredServices :
          /\ \A e \in kustomization_entries(tree, EntryOf(s.path.canonicalized)) :
                 KustomizationAlone(s, e).err = "none" =>
                     \A dep \in CanonicalPaths(KustomizationAlone(s, e).deps) :
                         ~ IsBelow(dep, s.path.canonicalized) => dep \in AutoPaths(s)
          /\ \A path \in ScannedFiles(s, "Justfile") :
                 extract_imports(tree, "Justfile", path).err = "none" =>
                     \A dep \in CanonicalPaths(extract_imports(tree, "Justfile", path).imports) :
                         ~ IsBelow(dep, s.path.canonicalized) => dep \in AutoPaths(s)

\* how often x occurs in the list
Occurrences(list, x) == Cardinality({ i \in DOMAIN list : list[i] = x })

\* the traversal ReferenceFinder makes from the justfile at path
Traversal(path) == extract_imports(tree, "Justfile", path)

\* the references of the files a traversal has read, file by file
ReferencesRead(traversal) ==
    Flatten([i \in DOMAIN traversal.read |->
                scanned_references(tree, "Justfile", traversal.read[i])])

\* C26: a traversal of ReferenceFinder over readable files ends without
\* error, also when the imports form a cycle: no path is read twice, what
\* it emits is what the files it read refer to, each reference as often as
\* it stands there (so a path met again adds nothing), a reference to a
\* path that is no file is emitted and not read, and what it emits outside
\* the service is an auto-dependency of the service
C26_FinderTerminates ==
    tree.unreadable = {} =>
        \A s \in DiscoveredServices : \A path \in ScannedFiles(s, "Justfile") :
            LET traversal == Traversal(path) IN
            /\ traversal.err = "none"
            /\ traversal.frames = <<>>
            /\ \A i, j \in DOMAIN traversal.read :
                   traversal.read[i] = traversal.read[j] => i = j
            /\ \A i \in DOMAIN traversal.read : path_is_file(tree, traversal.read[i])
            /\ \A i \in DOMAIN ReferencesRead(traversal) :
                   Occurrences(traversal.imports, ReferencesRead(traversal)[i])
                       = Occurrences(ReferencesRead(traversal), ReferencesRead(traversal)[i])
            /\ Len(traversal.imports) = Len(ReferencesRead(traversal))
            /\ \A dep \in CanonicalPaths(traversal.imports) :
                   ~ StartsWith(dep, s.path.canonicalized) => dep \in AutoPaths(s)

\* the justfile of service a imports j/b.just, which imports a path that
\* does not exist and the justfile of a again: both files are read once and
\* the service depends on j/b.just and on the missing j/gone
C26_Witness ==
    /\ tree.unreadable = {}
    /\ \E s \in DiscoveredServices :
          /\ s.path.canonicalized = EntryPath(<<DirA>>)
          /\ path_is_file(tree, EntryPath(<<DirA, NameJustfile>>))
          /\ Traversal(EntryPath(<<DirA, NameJustfile>>)).read
                 = << EntryPath(<<DirA, NameJustfile>>),
                      EntryPath(<<DirJ, <<"b", ".", "j", "u", "s", "t">>>>) >>
          /\ Len(Traversal(EntryPath(<<DirA, NameJustfile>>)).imports) = 3
          /\ ~ path_is_file(tree, EntryPath(<<DirJ, <<"g", "o", "n", "e">>>>))
          /\ { EntryPath(<<DirJ, <<"b", ".", "j", "u", "s", "t">>>>),
               EntryPath(<<DirJ, <<"g", "o", "n", "e">>>>) } \subseteq AutoPaths(s)


(***************************************************************************)
(* Properties of resolve on nested services                                *)
(***************************************************************************)
\* the pairs (outer, inner) of known services with inner below outer
NestedServices ==
    { pair \in (DOMAIN service_map) \X (DOMAIN service_map) : IsBelow(pair[2], pair[1]) }

\* C27: with service B below service A, the step of file-change attribution
\* for a changed file whose closest ancestor service is B sets FileChange on
\* B and leaves every other service as it was; at the end B has FileChange,
\* A has FileChange only when it is the closest ancestor of some other
\* changed file, and A is returned only when it owns a changed file or one
\* of its patterns matches a changed file or another triggered service
C27_ClosestAncestorOnly ==
    /\ [][(pc = "files" /\ AncestorServices(canon_changed_files[idx].canonicalized) # {}) =>
              LET owner == OwnerOf(canon_changed_files[idx].canonicalized) IN
              /\ service_map'[owner].trigger = FileChange
              /\ \A p \in DOMAIN service_map \ {owner} : service_map'[p] = service_map[p]]_vars
    /\ [](Finished =>
              \A pair \in NestedServices : \A j \in ChangedIdx :
                  (/\ IsBelow(Canon(changed_files[j]), pair[2])
                   /\ OwnerOf(Canon(changed_files[j])) = pair[2]) =>
                      /\ KindOf(pair[2]) = "FileChange"
                      /\ KindOf(pair[1]) = "FileChange" => Owns(pair[1])
                      /\ pair[1] \in ReturnedPaths =>
                             \/ Owns(pair[1])
                             \/ MatchingIdx(pair[1]) # {}
                             \/ \E q \in DOMAIN service_map \ {pair[1]} :
                                    KindOf(q) # "None" /\ AnyMatch(pair[1], q))

\* the services a and a/b, the only changed file a/b/x: a/b is returned
\* with FileChange and a, none of whose patterns matches, is not returned
C27_Witness ==
    /\ Finished
    /\ changed_files = << <<"a", "/", "b", "/", "x">> >>
    /\ \E pair \in NestedServices :
           /\ OwnerOf(Canon(changed_files[1])) = pair[2]
           /\ KindOf(pair[2]) = "FileChange"
           /\ KindOf(pair[1]) = "None"
           /\ pair[1] \notin ReturnedPaths
           /\ service_map[pair[1]].dependencies # {}


(***************************************************************************)
(* Properties of the Kustomize analyzer on shared directories              *)
(***************************************************************************)
\* the kustomization files of the directories the kustomization at path
\* references, as canonical paths
KustomizationsListed(path) ==
    LET refs == ReferencesOf(tree.kustomizations[EntryOf(path)])
        dirs == { dir \in { PathJoin(Parent(path), ref) : ref \in refs } :
                    /\ ~ path_is_file(tree, dir)
                    /\ path_is_dir(tree, dir)
                    /\ parse_kustomization_dir(tree, dir) # <<>> }
    IN { canonicalize(parse_kustomization_dir(tree, dir)) : dir \in dirs }

\* the existing files the kustomization at path references
FilesListed(path) ==
    LET refs == ReferencesOf(tree.kustomizations[EntryOf(path)]) IN
    { canonicalize(PathJoin(Parent(path), ref)) :
        ref \in { r \in refs : path_is_file(tree, PathJoin(Parent(path), r)) } }

\* the kustomization files reached from those of the set through references
RECURSIVE ReachedFrom(_)
ReachedFrom(kustomizations) ==
    LET more == kustomizations \cup UNION { KustomizationsListed(p) : p \in kustomizations } IN
    IF more = kustomizations THEN kustomizations ELSE ReachedFrom(more)

\* the reference graph has a cycle that the kustomization at start reaches
ReallyCyclic(start) ==
    \E p \in ReachedFrom({start}) : p \in ReachedFrom(KustomizationsListed(p))

\* some kustomization is reached from start along two different references
\* and none lies on a cycle
Diamond(start) ==
    /\ ~ ReallyCyclic(start)
    /\ \E p, q \in ReachedFrom({start}) :
          p # q /\ KustomizationsListed(p) \cap KustomizationsListed(q) # {}

\* C28: the Kustomize analyzer raises the cycle error only when the
\* kustomizations reached from the starting one lie on a cycle of
\* references; without a cycle, also when two of them reference the same
\* directory, it returns no error and the files they list, and the service
\* keeps those outside its directory
C28_CycleErrorOnlyOnCycle ==
    tree.unreadable = {} =>
        \A s \in DiscoveredServices :
            \A e \in kustomization_entries(tree, EntryOf(s.path.canonicalized)) :
                LET start == canonicalize(EntryPath(e))
                    found == KustomizationAlone(s, e)
                IN /\ found.err = "cyclic dependency" => ReallyCyclic(start)
                   /\ ~ ReallyCyclic(start) =>
                          /\ found.err = "none"
                          /\ CanonicalPaths(found.deps)
                                 = UNION { FilesListed(p) : p \in ReachedFrom({start}) }
                          /\ \A dep \in CanonicalPaths(found.deps) :
                                 ~ IsBelow(dep, s.path.canonicalized) => dep \in AutoPaths(s)


(***************************************************************************)
(* Properties of the own-directory filter                                  *)
(***************************************************************************)
\* C29: the own-directory filter of discover_service removes only what lies
\* inside the service directory as a path: every literal pattern an
\* analyzer reported whose canonical path is neither the service directory
\* nor below it, such as the sibling directory ab of the service a, is
\* among the final auto_dependencies of the service
C29_SiblingKept ==
    \A s \in DiscoveredServices :
        LET final == FinalPatterns(s)
            found == Reported(s.depsfile.languages)
            dir == s.path.canonicalized
        IN \A i \in DOMAIN found :
               (/\ ~ IsGlob(found[i])
                /\ found[i].raw.canonicalized # dir
                /\ ~ IsBelow(found[i].raw.canonicalized, dir)) =>
                   \E j \in DOMAIN final :
                       /\ ~ IsGlob(final[j])
                       /\ final[j].raw.canonicalized = found[i].raw.canonicalized


(***************************************************************************)
(* Properties of the sources resolve records                               *)
(***************************************************************************)
\* the changed files as given on input
ChangedGiven == { changed_files[j] : j \in ChangedIdx }

\* C30: without a global match, a step that sets a Dependency trigger is
\* the direct-dependency phase and records one of the changed files as
\* given; a step that sets a PeerDependency trigger records the path of a
\* service whose trigger was set before that step, in the pass before; and
\* in the result every Dependency names a changed file and every
\* PeerDependency the path of another service of the result
C30_TriggerSources ==
    /\ [][\A p \in DOMAIN service_map :
             (KindOf(p) = "None" /\ service_map'[p].trigger.kind = "Dependency") =>
                 /\ pc = "direct"
                 /\ service_map'[p].trigger.source \in ChangedGiven]_vars
    /\ [][\A p \in DOMAIN service_map :
             (KindOf(p) = "None" /\ service_map'[p].trigger.kind = "PeerDependency") =>
                 /\ pc = "peer"
                 /\ \E q \in DOMAIN service_map \ {p} :
                        /\ KindOf(q) # "None"
                        /\ \E i \in DOMAIN updated : updated[i] = service_map[q].path
                        /\ service_map'[p].trigger.source = service_map[q].path.display_path]_vars
    /\ []((Finished /\ ~ GlobalHit) =>
             \A s \in result.services :
                 /\ s.trigger.kind = "Dependency" => s.trigger.source \in ChangedGiven
                 /\ s.trigger.kind = "PeerDependency" =>
                        \E other \in result.services :
                            /\ other # s
                            /\ other.path.display_path = s.trigger.source)

\* two changed files, a service with Dependency on the second of them and a
\* service with PeerDependency on that service, set one pass later
C30_Witness ==
    /\ Finished
    /\ Len(changed_files) = 2
    /\ passes = 2
    /\ \E s, other \in result.services :
           /\ other.trigger.kind = "Dependency"
           /\ other.trigger.source = changed_files[2]
           /\ s.trigger.kind = "PeerDependency"
           /\ s.trigger.source = other.path.display_path

====
